---- MODULE Spec2Model ----
(***************************************************************************)
(* A model of src/bot.py: a Telegram group-moderation bot.  The state is   *)
(* the four JSON-backed tables, the in-memory flood buckets, the table     *)
(* files on disk, and the part of the Telegram server's state the bot acts *)
(* on (chat membership).  There is one action per handler; the outcome of  *)
(* every outbound call and file write is an input of the action.           *)
(***************************************************************************)
EXTENDS Integers, Sequences, FiniteSets, TLC

----------------------------------------------------------------------------
(* Program constants *)

FLOOD_WINDOW_SEC == 10
DEFAULT_FLOOD_LIMIT == 8
DEFAULT_FLOOD_MUTE_MIN == 5
MAX_WARNS_DEFAULT == 3
DEQUE_MAXLEN == 64
OWNER_ID == 1

WARN_FILE == "warns.json"
SETTINGS_FILE == "settings.json"
NOTES_FILE == "notes.json"
LOCKS_FILE == "locks.json"

LOCKABLES == {"links", "media", "stickers"}

\* the menu content, in the order of the dict: <<subject, <<title, url>>s>>
SUBJECTS ==
    << <<"Math", << <<"Algebra (PDF)", "https://example.com/math_algebra.pdf">>,
                    <<"Calculus (PDF)", "https://example.com/math_calculus.pdf">> >> >>,
       <<"Science", << <<"Physics (PDF)", "https://example.com/physics.pdf">>,
                       <<"Chemistry (PDF)", "https://example.com/chemistry.pdf">> >> >>,
       <<"English", << <<"Grammar (PDF)", "https://example.com/english_grammar.pdf">> >> >> >>

FAMILY_CHANNELS ==
    << <<"Main Channel", "https://t.me/your_real_channel">>,
       <<"Study Channel", "https://t.me/your_other_channel">> >>

----------------------------------------------------------------------------
(* Bounds of the model *)

\* /warn is not taken once a counter has reached this value
MaxWarnCount == 4
\* the clock stops here
MaxTime == 21
\* handler runs in the specification of the admin gate
MaxGateSteps == 3
\* handler runs in the specification of the dispatcher
MaxDispatchSteps == 2
\* handler runs in the specification of the table files
MaxStoreSteps == 3
\* handler runs in the specification of failing calls
MaxFailSteps == 1

\* handler runs in the specification of target resolution
MaxTargetSteps == 2

\* handler runs in the specification of table files found at startup
MaxLoadSteps == 2

\* handler runs in the specification of menu navigation
MaxMenuSteps == 6

----------------------------------------------------------------------------
(* The world around the bot *)

\* Telegram users: 1 is the configured owner, 2 an administrator of the
\* groups, 3 and 4 plain members.
Users == {1, 2, 3, 4}
GroupAdmins == {2}

\* Chats: a supergroup (negative id) and the private chat of user 3.
GroupChats == {-100}
PrivateChats == {3}
Chats == GroupChats \cup PrivateChats

ChatType(c) == IF c \in GroupChats THEN "supergroup" ELSE "private"

\* What an outbound Bot API call can do: succeed, be rejected by Telegram
\* (telegram.error.BadRequest), or fail otherwise (network, timeout, ...).
ApiRes == {"ok", "BadRequest", "Error"}

\* Where a save_all run can fail: 0 is no failure; 2i-1 is a failure while
\* writing the temporary file of the i-th table, 2i a failure of its rename.
SaveFaults == 0..8

\* The outcomes a specification lets the world produce: of the moderation
\* calls, of the replies, of the membership lookup, of save_all
Env(api, reply, lookup, save) ==
    [api |-> api, reply |-> reply, lookup |-> lookup, save |-> save]

----------------------------------------------------------------------------
(* Python dicts: functions with a finite domain of string keys *)

EmptyDict == [k \in {} |-> 0]

Get(d, k, default) == IF k \in DOMAIN d THEN d[k] ELSE default

Put(d, k, v) == [x \in DOMAIN d \cup {k} |-> IF x = k THEN v ELSE d[x]]

SetDefault(d, k, v) == IF k \in DOMAIN d THEN d ELSE Put(d, k, v)

Del(d, k) == [x \in DOMAIN d \ {k} |-> d[x]]

\* str(n) and int(s) for the numbers that occur as ids and arguments
Numbers == {0, 1, 2, 3, 4, 5, 10, 999} \cup Chats

str(n) == ToString(n)

isdigit(tok) == \E n \in Numbers : n >= 0 /\ str(n) = tok

int(tok) == CHOOSE n \in Numbers : str(n) = tok

Max(a, b) == IF a >= b THEN a ELSE b

Min(a, b) == IF a <= b THEN a ELSE b

----------------------------------------------------------------------------
(* State *)

VARIABLES
    WARNS,          \* chat key -> user key -> count
    SETTINGS,       \* chat key -> settings record
    NOTES,          \* chat key -> note name -> text
    LOCKS,          \* chat key -> lock name -> BOOLEAN
    FLOOD_BUCKETS,  \* <<chat, user>> -> sequence of timestamps
    disk,           \* path -> file content
    tg,             \* Telegram's side: chat -> user -> membership status
    menu,           \* Telegram's side: private chat -> the menu message shown
    now,            \* the clock read by time.time()
    steps,          \* handler runs so far, where a specification counts them
    out             \* what the last handler run did: its calls and outcome

vars == <<WARNS, SETTINGS, NOTES, LOCKS, FLOOD_BUCKETS, disk, tg, menu, now, steps, out>>

----------------------------------------------------------------------------
(* JSON files *)

\* json.dump of a table (a dict of dicts with string keys): the object's
\* members, as a set of <<key, members of the inner object>> pairs.
JsonDump(table) ==
    {<<c, {<<k, table[c][k]>> : k \in DOMAIN table[c]}>> : c \in DOMAIN table}

JsonObject(members) ==
    [k \in {m[1] : m \in members} |-> (CHOOSE m \in members : m[1] = k)[2]]

\* json.load: the dict of dicts the text denotes
JsonLoad(json) ==
    LET outer == JsonObject(json)
    IN  [c \in DOMAIN outer |-> JsonObject(outer[c])]

Absent == [st |-> "absent", json |-> {}]
Partial == [st |-> "partial", json |-> {}]
Full(table) == [st |-> "full", json |-> JsonDump(table)]

TmpOf(path) == path \o ".tmp"

TableFiles == <<WARN_FILE, SETTINGS_FILE, NOTES_FILE, LOCKS_FILE>>

Paths == {TableFiles[i] : i \in 1..4} \cup {TmpOf(TableFiles[i]) : i \in 1..4}

\* a load that keeps what it can read of a file that does not parse
_load_Lenient(dsk, path, default) ==
    IF dsk[path].st = "absent" THEN default
    ELSE JsonLoad(dsk[path].json)

\* _load: the default when the file is missing or does not parse
_load(dsk, path, default) ==
    IF dsk[path].st = "absent" THEN default
    ELSE IF dsk[path].st = "partial" THEN default
    ELSE JsonLoad(dsk[path].json)

\* a save that writes the table file in place
_atomic_save_InPlace(dsk, path, data, fault) ==
    IF fault = "write"
    THEN [disk |-> [dsk EXCEPT ![path] = Partial], raised |-> TRUE]
    ELSE [disk |-> [dsk EXCEPT ![path] = Full(data)], raised |-> FALSE]

\* _atomic_save with a fault: "write" fails inside json.dump and leaves a
\* truncated temporary file, "replace" fails in os.replace, "none" completes.
\* Gives the disk afterwards and whether an exception was raised.
_atomic_save(dsk, path, data, fault) ==
    IF fault = "write"
    THEN [disk |-> [dsk EXCEPT ![TmpOf(path)] = Partial], raised |-> TRUE]
    ELSE IF fault = "replace"
    THEN [disk |-> [dsk EXCEPT ![TmpOf(path)] = Full(data)], raised |-> TRUE]
    ELSE [disk |-> [dsk EXCEPT ![TmpOf(path)] = Absent, ![path] = Full(data)],
          raised |-> FALSE]

FaultOf(i, f) ==
    IF f = 2 * i - 1 THEN "write" ELSE IF f = 2 * i THEN "replace" ELSE "none"

----------------------------------------------------------------------------
(* A handler run: the state it works on and the calls it has made *)

\* The state a handler starts from; calls is the log of its outbound calls,
\* raised the exception in flight ("" when there is none), saves the log of
\* its save_all runs: the tables saved, the disk before and after, the outcome.
Cur ==
    [WARNS |-> WARNS, SETTINGS |-> SETTINGS, NOTES |-> NOTES, LOCKS |-> LOCKS,
     FLOOD |-> FLOOD_BUCKETS, disk |-> disk, tg |-> tg, menu |-> menu, now |-> now,
     steps |-> steps, calls |-> <<>>, raised |-> "", saves |-> <<>>]

\* An update delivered by the framework.  cmd is the command of a message or
\* the callback data of a button press.  reply is <<>> or <<author id>> of
\* the message replied to; args are the command's arguments.
\* mid is the message id, content what the message carries.
Update(kind, cmd, chat, from, mid, reply, args, content) ==
    [kind |-> kind, cmd |-> cmd, chat |-> chat, from |-> from, mid |-> mid,
     reply |-> reply, args |-> args, content |-> content]

\* a message replied to: its author and its id
Replied(from, mid) == [from |-> from, mid |-> mid]

Command(cmd, chat, from, reply, args) ==
    Update("message", cmd, chat, from, 5, reply, args, {"command"})

NoUpdate == Update("none", "", 0, 0, 0, <<>>, <<>>, {})

Call(api, text, chat, user, n, res) ==
    [api |-> api, text |-> text, chat |-> chat, user |-> user, n |-> n,
     res |-> res]

\* Telegram's side of a successful call
\* (n is <<minutes>> for a mute, <<>> otherwise)
ApiEffect(t, api, chat, user, n) ==
    IF chat \notin DOMAIN t \/ user \notin Users THEN t
    ELSE IF api = "kick_chat_member" THEN [t EXCEPT ![chat][user] = "kicked"]
    ELSE IF api = "unban_chat_member" THEN [t EXCEPT ![chat][user] = "left"]
    ELSE IF api = "restrict_chat_member" /\ t[chat][user] \in {"member", "restricted"}
         THEN [t EXCEPT ![chat][user] = IF n # <<>> THEN "restricted" ELSE "member"]
    ELSE t

\* One outbound call with its outcome: logged, applied when it succeeds,
\* an exception in flight when it does not.
Api(s, api, chat, user, n, res) ==
    [s EXCEPT !.calls = Append(@, Call(api, "", chat, user, n, res)),
              !.tg = IF res = "ok" THEN ApiEffect(@, api, chat, user, n) ELSE @,
              !.raised = IF res = "ok" THEN "" ELSE res]

\* message.reply_text(text); n carries the numbers shown in the text
Reply(s, u, text, n, res) ==
    [s EXCEPT !.calls = Append(@, Call("reply_text", text, u.chat, 0, n, res)),
              !.raised = IF res = "ok" THEN "" ELSE res]

\* an except clause that handles the exception in flight
Caught(s) == [s EXCEPT !.raised = ""]

\* The handler returns (or its exception reaches the dispatcher, which logs
\* it through error_handler): the state it leaves behind.
Commit(handler, u, s) ==
    /\ WARNS' = s.WARNS
    /\ SETTINGS' = s.SETTINGS
    /\ NOTES' = s.NOTES
    /\ LOCKS' = s.LOCKS
    /\ FLOOD_BUCKETS' = s.FLOOD
    /\ disk' = s.disk
    /\ tg' = s.tg
    /\ menu' = s.menu
    /\ now' = s.now
    /\ steps' = s.steps
    /\ out' = [handler |-> handler, u |-> u, calls |-> s.calls,
               raised |-> s.raised, saves |-> s.saves]

----------------------------------------------------------------------------
(* save_all *)

TableOf(s, i) ==
    IF i = 1 THEN s.WARNS ELSE IF i = 2 THEN s.SETTINGS
    ELSE IF i = 3 THEN s.NOTES ELSE s.LOCKS

RECURSIVE SaveFrom(_, _, _)
\* the saves of tables i..4, stopping at the first that raises
SaveFrom(s, i, f) ==
    IF i > 4 THEN s
    ELSE LET r == _atomic_save(s.disk, TableFiles[i], TableOf(s, i), FaultOf(i, f))
             s1 == [s EXCEPT !.disk = r.disk,
                             !.raised = IF r.raised THEN "Error" ELSE ""]
         IN  IF r.raised THEN s1 ELSE SaveFrom(s1, i + 1, f)

\* save_all with fault f (0: none)
save_all(s, f) ==
    LET s1 == SaveFrom(s, 1, f)
    IN  [s1 EXCEPT !.saves = Append(@, [tables |-> <<s.WARNS, s.SETTINGS, s.NOTES, s.LOCKS>>,
                                        before |-> s.disk, after |-> s1.disk,
                                        raised |-> s1.raised # ""])]

----------------------------------------------------------------------------
(* Helpers *)

is_group(u) == ChatType(u.chat) \in {"group", "supergroup"}

DefaultSettings ==
    [welcome_on |-> TRUE, welcome_text |-> "default welcome",
     rules_text |-> "default rules", max_warns |-> MAX_WARNS_DEFAULT,
     flood_limit |-> DEFAULT_FLOOD_LIMIT,
     flood_mute_min |-> DEFAULT_FLOOD_MUTE_MIN]

\* chat_settings: the state after the setdefault; the record is then
\* s.SETTINGS[str(chat_id)]
chat_settings(s, chat_id) ==
    [s EXCEPT !.SETTINGS = SetDefault(@, str(chat_id), DefaultSettings)]

DefaultLocks == [links |-> FALSE, media |-> FALSE, stickers |-> FALSE]

chat_locks(s, chat_id) ==
    [s EXCEPT !.LOCKS = SetDefault(@, str(chat_id), DefaultLocks)]

\* a lookup that lets the invoker through when it fails
is_user_admin_in_chat_FailOpen(s, chat_id, user_id, res) ==
    [s |-> Caught(Api(s, "get_chat_member", chat_id, user_id, <<>>, res)),
     admin |-> res # "ok" \/ s.tg[chat_id][user_id] \in {"administrator", "creator"}]

\* is_user_admin_in_chat: the lookup is logged; any failure counts as False
is_user_admin_in_chat(s, chat_id, user_id, res) ==
    LET s1 == Api(s, "get_chat_member", chat_id, user_id, <<>>, res)
    IN  [s |-> Caught(s1),
         admin |-> res = "ok" /\ s.tg[chat_id][user_id] \in {"administrator", "creator"}]

\* require_group_and_admin: every way the wrapper can run before the body.
\* pass says whether the body runs next, from state s.
require_group_and_admin(s, u, env) ==
    IF ~is_group(u)
    THEN {[pass |-> FALSE, s |-> Reply(s, u, "This command must be used in groups.", <<>>, r)] :
            r \in env.reply}
    ELSE IF u.from = OWNER_ID
    THEN {[pass |-> TRUE, s |-> s]}
    ELSE UNION {
        LET g == is_user_admin_in_chat(s, u.chat, u.from, l)
        IN  IF g.admin
            THEN {[pass |-> TRUE, s |-> g.s]}
            ELSE {[pass |-> FALSE, s |-> Reply(g.s, u, "Admins only.", <<>>, r)] :
                    r \in env.reply}
        : l \in env.lookup}

\* the argument looked at before the message replied to
_get_target_from_reply_or_arg_ArgFirst(u) ==
    IF u.args # <<>> /\ isdigit(u.args[1]) THEN <<int(u.args[1])>>
    ELSE IF u.reply # <<>> /\ u.reply[1].from # 0 THEN <<u.reply[1].from>>
    ELSE <<>>

\* _get_target_from_reply_or_arg: <<>> for None
_get_target_from_reply_or_arg(u) ==
    IF u.reply # <<>> /\ u.reply[1].from # 0 THEN <<u.reply[1].from>>
    ELSE IF u.args # <<>> /\ isdigit(u.args[1]) THEN <<int(u.args[1])>>
    ELSE <<>>

\* Python's "not target" for an Optional[int]: None and 0 are both falsy
Falsy(target) == target = <<>> \/ target[1] = 0

----------------------------------------------------------------------------
(* Warns *)

WarnCount(W, chat_id, t) == Get(Get(W, chat_id, EmptyDict), t, 0)

\* WARNS.setdefault(chat_id, {}); WARNS[chat_id][t] = WARNS[chat_id].get(t, 0) + 1
WarnIncrement(W, chat_id, t) ==
    LET w1 == SetDefault(W, chat_id, EmptyDict)
    IN  Put(w1, chat_id, Put(w1[chat_id], t, Get(w1[chat_id], t, 0) + 1))

\* a reset that forgets the chat's other counters
WarnReset_Wipe(W, chat_id, t) == Put(W, chat_id, Put(EmptyDict, t, 0))

\* WARNS[chat_id][t] = 0
WarnReset(W, chat_id, t) ==
    LET w1 == SetDefault(W, chat_id, EmptyDict)
    IN  Put(w1, chat_id, Put(w1[chat_id], t, 0))

\* a ban that leaves the counter where it is
WarnAfterBan_NoReset(W, chat_id, t, k) == W

\* a reset made before the ban is known to have gone through
WarnAfterBan_ResetFirst(W, chat_id, t, k) == WarnReset(W, chat_id, t)

\* try: kick_chat_member(...); WARNS[chat_id][t] = 0: the table after the
\* ban call came back with k
WarnAfterBan(W, chat_id, t, k) == IF k = "ok" THEN WarnReset(W, chat_id, t) ELSE W

\* an off-by-one threshold
MaxWarnsReached_Above(cnt, maxw) == cnt > maxw

\* if cnt >= maxw
MaxWarnsReached(cnt, maxw) == cnt >= maxw

\* The auto-ban of cmd_warn: the try block and its except BadRequest clause
WarnAutoBan(u, s, chat_id, target, env) ==
    \E k \in env.api :
        LET s1 == Api(s, "kick_chat_member", int(chat_id), target, <<>>, k)
        IN  IF k = "Error"
            THEN Commit("cmd_warn", u,
                        [s1 EXCEPT !.WARNS = WarnAfterBan(@, chat_id, str(target), k)])
            ELSE IF k = "BadRequest"
            THEN \E r \in env.reply :
                    Commit("cmd_warn", u,
                           Reply(Caught([s1 EXCEPT !.WARNS = WarnAfterBan(@, chat_id, str(target), k)]),
                                 u, "Auto-ban failed", <<>>, r))
            ELSE \E f \in env.save :
                    LET s2 == save_all([s1 EXCEPT !.WARNS = WarnAfterBan(@, chat_id, str(target), k)], f)
                    IN  IF s2.raised # "" THEN Commit("cmd_warn", u, s2)
                        ELSE \E r \in env.reply :
                                LET s3 == Reply(s2, u, "Max warns reached - user banned.", <<>>, r)
                                IN  IF r = "BadRequest"
                                    THEN \E r2 \in env.reply :
                                            Commit("cmd_warn", u,
                                                   Reply(Caught(s3), u, "Auto-ban failed", <<>>, r2))
                                    ELSE Commit("cmd_warn", u, s3)

cmd_warn(s0, u, env) ==
    \E g \in require_group_and_admin(s0, u, env) :
        LET target == _get_target_from_reply_or_arg(u)
            chat_id == str(u.chat)
        IN  IF ~g.pass THEN Commit("cmd_warn", u, g.s)
            ELSE IF Falsy(target)
            THEN \E r \in env.reply :
                    Commit("cmd_warn", u, Reply(g.s, u, "Reply to a user to /warn.", <<>>, r))
            ELSE \E f \in env.save :
                    LET s1 == [g.s EXCEPT !.WARNS = WarnIncrement(@, chat_id, str(target[1]))]
                        s2 == save_all(s1, f)
                        s3 == chat_settings(s2, int(chat_id))
                        maxw == s3.SETTINGS[chat_id].max_warns
                        cnt == s3.WARNS[chat_id][str(target[1])]
                    IN  IF s2.raised # "" THEN Commit("cmd_warn", u, s2)
                        ELSE \E r \in env.reply :
                                LET s4 == Reply(s3, u, "Warned.", <<cnt, maxw>>, r)
                                IN  IF s4.raised # "" \/ ~MaxWarnsReached(cnt, maxw)
                                    THEN Commit("cmd_warn", u, s4)
                                    ELSE WarnAutoBan(u, s4, chat_id, target[1], env)

\* The target of /warnings and /clearwarns: the author of the message replied
\* to, else a numeric first argument, else none
ReplyOrArgTarget(u) ==
    IF u.reply # <<>> THEN <<u.reply[1].from>>
    ELSE IF u.args # <<>> /\ isdigit(u.args[1]) THEN <<int(u.args[1])>>
    ELSE <<>>

\* cmd_warnings: not gated
cmd_warnings(s0, u, env) ==
    LET target == ReplyOrArgTarget(u)
        chat_id == str(u.chat)
    IN  IF target = <<>>
        THEN \E r \in env.reply :
                Commit("cmd_warnings", u,
                       Reply(s0, u, "Reply to user or pass user ID to see warnings.", <<>>, r))
        ELSE LET cnt == WarnCount(s0.WARNS, chat_id, str(target[1]))
                 s1 == chat_settings(s0, int(chat_id))
                 maxw == s1.SETTINGS[chat_id].max_warns
             IN  \E r \in env.reply :
                    Commit("cmd_warnings", u, Reply(s1, u, "Warnings:", <<cnt, maxw>>, r))

cmd_clearwarns(s0, u, env) ==
    \E g \in require_group_and_admin(s0, u, env) :
        LET target == ReplyOrArgTarget(u)
            chat_id == str(u.chat)
        IN  IF ~g.pass THEN Commit("cmd_clearwarns", u, g.s)
            ELSE IF target = <<>>
            THEN \E r \in env.reply :
                    Commit("cmd_clearwarns", u,
                           Reply(g.s, u, "Reply to user or pass user ID to clear warnings.", <<>>, r))
            ELSE \E f \in env.save :
                    LET s1 == save_all([g.s EXCEPT !.WARNS = WarnReset(@, chat_id, str(target[1]))], f)
                    IN  IF s1.raised # "" THEN Commit("cmd_clearwarns", u, s1)
                        ELSE \E r \in env.reply :
                                Commit("cmd_clearwarns", u, Reply(s1, u, "Warnings cleared.", <<>>, r))

\* a clamp without the ceiling
ClampMaxWarns_NoCeiling(n) == Max(1, n)

\* n = max(1, min(10, int(arg)))
ClampMaxWarns(n) == Max(1, Min(10, n))

cmd_setmaxwarns(s0, u, env) ==
    \E g \in require_group_and_admin(s0, u, env) :
        IF ~g.pass THEN Commit("cmd_setmaxwarns", u, g.s)
        ELSE IF u.args = <<>> \/ ~isdigit(u.args[1])
        THEN \E r \in env.reply :
                Commit("cmd_setmaxwarns", u, Reply(g.s, u, "Usage: /setmaxwarns <number>", <<>>, r))
        ELSE \E f \in env.save :
                LET n == ClampMaxWarns(int(u.args[1]))
                    s1 == chat_settings(g.s, u.chat)
                    s2 == [s1 EXCEPT !.SETTINGS[str(u.chat)].max_warns = n]
                    s3 == save_all(s2, f)
                IN  IF s3.raised # "" THEN Commit("cmd_setmaxwarns", u, s3)
                    ELSE \E r \in env.reply :
                            Commit("cmd_setmaxwarns", u, Reply(s3, u, "Max warns set to", <<n>>, r))

----------------------------------------------------------------------------
(* Moderation *)

\* a report without the except clause: a rejected call leaves the handler
ReportOutcome_NoExcept(h, u, s, okText, failText, env) ==
    IF s.raised # "" THEN Commit(h, u, s)
    ELSE \E r \in env.reply : Commit(h, u, Reply(s, u, okText, <<>>, r))

\* The tail of a moderation try block: the success reply, and the except
\* BadRequest clause that reports a rejection (of the calls or of that reply).
ReportOutcome(h, u, s, okText, failText, env) ==
    IF s.raised = "Error" THEN Commit(h, u, s)
    ELSE IF s.raised = "BadRequest"
    THEN \E r \in env.reply : Commit(h, u, Reply(Caught(s), u, failText, <<>>, r))
    ELSE \E r \in env.reply :
            LET s1 == Reply(s, u, okText, <<>>, r)
            IN  IF r = "BadRequest"
                THEN \E r2 \in env.reply :
                        Commit(h, u, Reply(Caught(s1), u, failText, <<>>, r2))
                ELSE Commit(h, u, s1)

cmd_ban(s0, u, env) ==
    \E g \in require_group_and_admin(s0, u, env) :
        LET target == _get_target_from_reply_or_arg(u)
        IN  IF ~g.pass THEN Commit("cmd_ban", u, g.s)
            ELSE IF Falsy(target)
            THEN \E r \in env.reply :
                    Commit("cmd_ban", u,
                           Reply(g.s, u, "Reply to a user or pass user_id: /ban <id>", <<>>, r))
            ELSE \E k \in env.api :
                    ReportOutcome("cmd_ban", u,
                                  Api(g.s, "kick_chat_member", u.chat, target[1], <<>>, k),
                                  "User banned.", "Failed to ban", env)

cmd_unban(s0, u, env) ==
    \E g \in require_group_and_admin(s0, u, env) :
        IF ~g.pass THEN Commit("cmd_unban", u, g.s)
        ELSE IF u.args = <<>> \/ ~isdigit(u.args[1])
        THEN \E r \in env.reply :
                Commit("cmd_unban", u, Reply(g.s, u, "Usage: /unban <user_id>", <<>>, r))
        ELSE \E k \in env.api :
                ReportOutcome("cmd_unban", u,
                              Api(g.s, "unban_chat_member", u.chat, int(u.args[1]), <<>>, k),
                              "User unbanned.", "Failed to unban", env)

\* The two calls of a kick: ban, then (when the ban went through) unban
KickCalls(s, chat, target, k1, k2) ==
    LET s1 == Api(s, "kick_chat_member", chat, target, <<>>, k1)
    IN  IF k1 # "ok" THEN s1
        ELSE Api(s1, "unban_chat_member", chat, target, <<>>, k2)

cmd_kick(s0, u, env) ==
    \E g \in require_group_and_admin(s0, u, env) :
        LET target == _get_target_from_reply_or_arg(u)
        IN  IF ~g.pass THEN Commit("cmd_kick", u, g.s)
            ELSE IF Falsy(target)
            THEN \E r \in env.reply :
                    Commit("cmd_kick", u, Reply(g.s, u, "Reply to a user to /kick.", <<>>, r))
            ELSE \E k1 \in env.api :
                    \E k2 \in (IF k1 = "ok" THEN env.api ELSE {"ok"}) :
                        ReportOutcome("cmd_kick", u,
                                      KickCalls(g.s, u.chat, target[1], k1, k2),
                                      "User kicked.", "Failed to kick", env)

\* cmd_mute's minutes: 10, or max(1, int(args[0])) for a numeric first argument
MuteMinutes(u) ==
    IF u.args # <<>> /\ isdigit(u.args[1]) THEN Max(1, int(u.args[1])) ELSE 10

cmd_mute(s0, u, env) ==
    \E g \in require_group_and_admin(s0, u, env) :
        LET target == _get_target_from_reply_or_arg(u)
            minutes == MuteMinutes(u)
            until == g.s.now + minutes * 60
        IN  IF ~g.pass THEN Commit("cmd_mute", u, g.s)
            ELSE IF Falsy(target)
            THEN \E r \in env.reply :
                    Commit("cmd_mute", u,
                           Reply(g.s, u, "Reply to a user to /mute or /mute <minutes> while replying.",
                                 <<>>, r))
            ELSE \E k \in env.api :
                    LET s1 == Api(g.s, "restrict_chat_member", u.chat, target[1], <<minutes, until>>, k)
                    IN  IF s1.raised = "Error" THEN Commit("cmd_mute", u, s1)
                        ELSE IF s1.raised = "BadRequest"
                        THEN \E r \in env.reply :
                                Commit("cmd_mute", u, Reply(Caught(s1), u, "Failed to mute", <<>>, r))
                        ELSE \E r \in env.reply :
                                LET s2 == Reply(s1, u, "Muted for", <<minutes>>, r)
                                IN  IF r = "BadRequest"
                                    THEN \E r2 \in env.reply :
                                            Commit("cmd_mute", u,
                                                   Reply(Caught(s2), u, "Failed to mute", <<>>, r2))
                                    ELSE Commit("cmd_mute", u, s2)

cmd_unmute(s0, u, env) ==
    \E g \in require_group_and_admin(s0, u, env) :
        LET target == _get_target_from_reply_or_arg(u)
        IN  IF ~g.pass THEN Commit("cmd_unmute", u, g.s)
            ELSE IF Falsy(target)
            THEN \E r \in env.reply :
                    Commit("cmd_unmute", u, Reply(g.s, u, "Reply to a user to /unmute.", <<>>, r))
            ELSE \E k \in env.api :
                    ReportOutcome("cmd_unmute", u,
                                  Api(g.s, "restrict_chat_member", u.chat, target[1], <<>>, k),
                                  "User unmuted.", "Failed to unmute", env)

PURGE_MAX == 300

\* range(a, b, -1) and range(a, b) as sequences of message ids
RangeDown(a, b) == [i \in 1..Max(0, a - b) |-> a - (i - 1)]

RangeUp(a, b) == [i \in 1..Max(0, b - a) |-> a + (i - 1)]

RECURSIVE DeleteEach(_, _, _, _, _)
\* the purge loop: one delete_message per id, a failure skipped; gives the
\* state and the number of deletions that succeeded
DeleteEach(s, chat, mids, res, deleted) ==
    IF mids = <<>> THEN [s |-> s, deleted |-> deleted]
    ELSE LET mid == Head(mids)
             s1 == Caught(Api(s, "delete_message", chat, 0, <<mid>>, res[mid]))
         IN  DeleteEach(s1, chat, Tail(mids), res,
                        IF res[mid] = "ok" THEN deleted + 1 ELSE deleted)

\* the ids /purge walks over: count mode, else reply mode, else none
PurgeIds(u) ==
    IF u.args # <<>> /\ isdigit(u.args[1])
    THEN RangeDown(u.mid, u.mid - Min(PURGE_MAX, int(u.args[1])) - 1)
    ELSE IF u.reply = <<>> THEN <<>>
    ELSE RangeUp(u.reply[1].mid, u.mid + 1)

cmd_purge(s0, u, env) ==
    \E g \in require_group_and_admin(s0, u, env) :
        LET mids == PurgeIds(u)
            countMode == u.args # <<>> /\ isdigit(u.args[1])
        IN  IF ~g.pass THEN Commit("cmd_purge", u, g.s)
            ELSE IF ~countMode /\ u.reply = <<>>
            THEN \E r \in env.reply :
                    Commit("cmd_purge", u,
                           Reply(g.s, u, "Reply to a message with /purge OR use /purge <count>", <<>>, r))
            ELSE \E res \in [{mids[i] : i \in 1..Len(mids)} -> env.api] :
                    LET d == DeleteEach(g.s, u.chat, mids, res, 0)
                    IN  \E r \in env.reply :
                            Commit("cmd_purge", u,
                                   Reply(d.s, u,
                                         IF countMode THEN "Purged messages."
                                         ELSE "Purged messages (best effort).",
                                         <<d.deleted>>, r))

----------------------------------------------------------------------------
(* Welcome text, rules, pins *)

RECURSIVE Join(_)
\* " ".join(args)
Join(args) ==
    IF args = <<>> THEN ""
    ELSE IF Len(args) = 1 THEN args[1]
    ELSE args[1] \o " " \o Join(Tail(args))

\* a settings command that stores a text: /setwelcome, /setrules
SetText(h, field, s0, u, usage, done, env) ==
    \E g \in require_group_and_admin(s0, u, env) :
        LET text == Join(u.args)
        IN  IF ~g.pass THEN Commit(h, u, g.s)
            ELSE IF text = ""
            THEN \E r \in env.reply : Commit(h, u, Reply(g.s, u, usage, <<>>, r))
            ELSE \E f \in env.save :
                    LET s1 == chat_settings(g.s, u.chat)
                        s2 == [s1 EXCEPT !.SETTINGS[str(u.chat)] = Put(@, field, text)]
                        s3 == save_all(s2, f)
                    IN  IF s3.raised # "" THEN Commit(h, u, s3)
                        ELSE \E r \in env.reply : Commit(h, u, Reply(s3, u, done, <<>>, r))

cmd_setwelcome(s0, u, env) ==
    SetText("cmd_setwelcome", "welcome_text", s0, u,
            "Usage: /setwelcome Welcome {mention}! Read the rules: /rules",
            "Welcome message updated.", env)

cmd_setrules(s0, u, env) ==
    SetText("cmd_setrules", "rules_text", s0, u, "Usage: /setrules <text>", "Rules updated.", env)

\* /welcomeon, /welcomeoff
SetWelcomeOn(h, on, s0, u, done, env) ==
    \E g \in require_group_and_admin(s0, u, env) :
        IF ~g.pass THEN Commit(h, u, g.s)
        ELSE \E f \in env.save :
                LET s1 == chat_settings(g.s, u.chat)
                    s2 == [s1 EXCEPT !.SETTINGS[str(u.chat)].welcome_on = on]
                    s3 == save_all(s2, f)
                IN  IF s3.raised # "" THEN Commit(h, u, s3)
                    ELSE \E r \in env.reply : Commit(h, u, Reply(s3, u, done, <<>>, r))

cmd_welcomeon(s0, u, env) ==
    SetWelcomeOn("cmd_welcomeon", TRUE, s0, u, "Welcome messages enabled.", env)

cmd_welcomeoff(s0, u, env) ==
    SetWelcomeOn("cmd_welcomeoff", FALSE, s0, u, "Welcome messages disabled.", env)

\* cmd_rules: not gated
cmd_rules(s0, u, env) ==
    LET s1 == chat_settings(s0, u.chat)
    IN  \E r \in env.reply :
            Commit("cmd_rules", u, Reply(s1, u, s1.SETTINGS[str(u.chat)].rules_text, <<>>, r))

cmd_pin(s0, u, env) ==
    \E g \in require_group_and_admin(s0, u, env) :
        IF ~g.pass THEN Commit("cmd_pin", u, g.s)
        ELSE IF u.reply = <<>>
        THEN \E r \in env.reply :
                Commit("cmd_pin", u, Reply(g.s, u, "Reply to a message to /pin.", <<>>, r))
        ELSE \E k \in env.api :
                ReportOutcome("cmd_pin", u,
                              Api(g.s, "pin_chat_message", u.chat, 0, <<u.reply[1].mid>>, k),
                              "Pinned.", "Failed to pin", env)

cmd_unpin(s0, u, env) ==
    \E g \in require_group_and_admin(s0, u, env) :
        IF ~g.pass THEN Commit("cmd_unpin", u, g.s)
        ELSE \E k \in env.api :
                ReportOutcome("cmd_unpin", u,
                              Api(g.s, "unpin_chat_message", u.chat, 0, <<>>, k),
                              "Unpinned.", "Failed to unpin", env)

----------------------------------------------------------------------------
(* Notes *)

\* str.lower() on the words that occur as arguments
\* names kept as they are typed
lower_AsTyped(tok) == tok

lower(tok) ==
    CASE tok \in {"Foo", "FOO", "foo"} -> "foo"
      [] tok \in {"Bar", "bar"} -> "bar"
      [] tok \in {"Links", "LINKS", "links"} -> "links"
      [] tok \in {"Media", "media"} -> "media"
      [] tok \in {"Stickers", "stickers"} -> "stickers"
      [] OTHER -> tok

cmd_save(s0, u, env) ==
    \E g \in require_group_and_admin(s0, u, env) :
        IF ~g.pass THEN Commit("cmd_save", u, g.s)
        ELSE IF Len(u.args) < 2
        THEN \E r \in env.reply :
                Commit("cmd_save", u, Reply(g.s, u, "Usage: /save <name> <text>", <<>>, r))
        ELSE \E f \in env.save :
                LET name == lower(u.args[1])
                    text == Join(Tail(u.args))
                    cid == str(u.chat)
                    n1 == SetDefault(g.s.NOTES, cid, EmptyDict)
                    s1 == [g.s EXCEPT !.NOTES = Put(n1, cid, Put(n1[cid], name, text))]
                    s2 == save_all(s1, f)
                IN  IF s2.raised # "" THEN Commit("cmd_save", u, s2)
                    ELSE \E r \in env.reply :
                            Commit("cmd_save", u, Reply(s2, u, "Note saved: " \o name, <<>>, r))

\* cmd_get: not gated
cmd_get(s0, u, env) ==
    IF u.args = <<>>
    THEN \E r \in env.reply : Commit("cmd_get", u, Reply(s0, u, "Usage: /get <name>", <<>>, r))
    ELSE LET name == lower(u.args[1])
             notes == Get(s0.NOTES, str(u.chat), EmptyDict)
         IN  \E r \in env.reply :
                Commit("cmd_get", u,
                       Reply(s0, u,
                             IF name \notin DOMAIN notes \/ notes[name] = ""
                             THEN "Note not found." ELSE notes[name],
                             <<>>, r))

\* cmd_notes: not gated; the reply lists the names
cmd_notes(s0, u, env) ==
    LET keys == DOMAIN Get(s0.NOTES, str(u.chat), EmptyDict)
    IN  \E r \in env.reply :
            Commit("cmd_notes", u,
                   Reply(s0, u, IF keys = {} THEN "No notes saved." ELSE "Notes:",
                         <<Cardinality(keys)>>, r))

cmd_delnote(s0, u, env) ==
    \E g \in require_group_and_admin(s0, u, env) :
        IF ~g.pass THEN Commit("cmd_delnote", u, g.s)
        ELSE IF u.args = <<>>
        THEN \E r \in env.reply :
                Commit("cmd_delnote", u, Reply(g.s, u, "Usage: /delnote <name>", <<>>, r))
        ELSE LET name == lower(u.args[1])
                 cid == str(u.chat)
             IN  IF name \notin DOMAIN Get(g.s.NOTES, cid, EmptyDict)
                 THEN \E r \in env.reply :
                        Commit("cmd_delnote", u, Reply(g.s, u, "Note not found.", <<>>, r))
                 ELSE \E f \in env.save :
                        LET s1 == [g.s EXCEPT !.NOTES[cid] = Del(@, name)]
                            s2 == save_all(s1, f)
                        IN  IF s2.raised # "" THEN Commit("cmd_delnote", u, s2)
                            ELSE \E r \in env.reply :
                                    Commit("cmd_delnote", u,
                                           Reply(s2, u, "Deleted note: " \o name, <<>>, r))

----------------------------------------------------------------------------
(* Locks and the per-message enforcement *)

\* /lock, /unlock
SetLock(h, on, s0, u, usage, done, env) ==
    \E g \in require_group_and_admin(s0, u, env) :
        IF ~g.pass THEN Commit(h, u, g.s)
        ELSE IF u.args = <<>> \/ lower(u.args[1]) \notin LOCKABLES
        THEN \E r \in env.reply : Commit(h, u, Reply(g.s, u, usage, <<>>, r))
        ELSE \E f \in env.save :
                LET t == lower(u.args[1])
                    s1 == chat_locks(g.s, u.chat)
                    s2 == [s1 EXCEPT !.LOCKS[str(u.chat)] = Put(@, t, on)]
                    s3 == save_all(s2, f)
                IN  IF s3.raised # "" THEN Commit(h, u, s3)
                    ELSE \E r \in env.reply :
                            Commit(h, u, Reply(s3, u, done \o t, <<>>, r))

cmd_lock(s0, u, env) ==
    SetLock("cmd_lock", TRUE, s0, u, "Usage: /lock <links|media|stickers>", "Locked ", env)

cmd_unlock(s0, u, env) ==
    SetLock("cmd_unlock", FALSE, s0, u, "Usage: /unlock <links|media|stickers>", "Unlocked ", env)

\* the media check ahead of the links check
FirstLockHit_MediaFirst(locks, u) ==
    IF locks["media"] /\ "media" \in u.content THEN "media"
    ELSE IF locks["links"] /\ "link" \in u.content THEN "links"
    ELSE IF locks["stickers"] /\ "sticker" \in u.content THEN "stickers"
    ELSE ""

\* The lock checks in their order: the first active lock the message matches
\* ("" when it matches none)
FirstLockHit(locks, u) ==
    IF locks["links"] /\ "link" \in u.content THEN "links"
    ELSE IF locks["media"] /\ "media" \in u.content THEN "media"
    ELSE IF locks["stickers"] /\ "sticker" \in u.content THEN "stickers"
    ELSE ""

\* dq.append(now) on a deque(maxlen=64): at capacity the oldest entry goes
DequeAppend(dq, x) ==
    IF Len(dq) >= DEQUE_MAXLEN THEN Append(Tail(dq), x) ELSE Append(dq, x)

\* an if where the loop is: at most one stale entry goes
EvictOld_Once(dq, t) ==
    IF dq # <<>> /\ t - Head(dq) > FLOOD_WINDOW_SEC THEN Tail(dq) ELSE dq

RECURSIVE EvictOld(_, _)
\* while dq and now - dq[0] > FLOOD_WINDOW_SEC: dq.popleft()
EvictOld(dq, t) ==
    IF dq # <<>> /\ t - Head(dq) > FLOOD_WINDOW_SEC THEN EvictOld(Tail(dq), t) ELSE dq

\* a limit that is reached rather than exceeded
FloodExceeded_AtLimit(dq, limit) == Len(dq) >= limit

\* if len(dq) > limit
FloodExceeded(dq, limit) == Len(dq) > limit

\* a window emptied as soon as the restrict call has gone through
FloodAccounting_ClearOnMute(u, s, env) ==
    LET s1 == chat_settings(s, u.chat)
        st == s1.SETTINGS[str(u.chat)]
        key == <<u.chat, u.from>>
        dq == EvictOld(DequeAppend(s1.FLOOD[key], s1.now), s1.now)
        s2 == [s1 EXCEPT !.FLOOD[key] = dq]
    IN  IF u.from = 0 THEN Commit("enforcement_handler", u, s1)
        ELSE IF ~FloodExceeded(dq, st.flood_limit) THEN Commit("enforcement_handler", u, s2)
        ELSE \E k \in env.api :
                LET s3 == Api(s2, "restrict_chat_member", u.chat, u.from,
                              <<st.flood_mute_min, s2.now + st.flood_mute_min * 60>>, k)
                IN  IF k # "ok" THEN Commit("enforcement_handler", u, Caught(s3))
                    ELSE \E r \in env.reply :
                            Commit("enforcement_handler", u,
                                   [Caught(Api(s3, "send_message", u.chat, u.from,
                                               <<st.flood_mute_min>>, r))
                                        EXCEPT !.FLOOD[key] = <<>>])

\* The anti-flood part of enforcement_handler
FloodAccounting(u, s, env) ==
    LET s1 == chat_settings(s, u.chat)
        st == s1.SETTINGS[str(u.chat)]
        limit == st.flood_limit
        mute_min == st.flood_mute_min
        key == <<u.chat, u.from>>
        dq == EvictOld(DequeAppend(s1.FLOOD[key], s1.now), s1.now)
        s2 == [s1 EXCEPT !.FLOOD[key] = dq]
    IN  IF u.from = 0 THEN Commit("enforcement_handler", u, s1)
        ELSE IF ~FloodExceeded(dq, limit) THEN Commit("enforcement_handler", u, s2)
        ELSE \E k \in env.api :
                LET s3 == Api(s2, "restrict_chat_member", u.chat, u.from,
                              <<mute_min, s2.now + mute_min * 60>>, k)
                IN  IF k # "ok" THEN Commit("enforcement_handler", u, Caught(s3))
                    ELSE \E r \in env.reply :
                            LET s4 == Api(s3, "send_message", u.chat, u.from, <<mute_min>>, r)
                            IN  IF r # "ok" THEN Commit("enforcement_handler", u, Caught(s4))
                                ELSE Commit("enforcement_handler", u,
                                            [s4 EXCEPT !.FLOOD[key] = <<>>])

\* context.bot.delete_message(chat_id, msg.message_id) in the check of lock
\* `site`: the call is logged with the check it was made from
DeleteAt(s, site, chat, mid, res) ==
    [s EXCEPT !.calls = Append(@, Call("delete_message", site, chat, 0, <<mid>>, res)),
              !.raised = IF res = "ok" THEN "" ELSE res]

enforcement_handler(s0, u, env) ==
    IF ~is_group(u) THEN Commit("enforcement_handler", u, s0)
    ELSE LET s1 == chat_locks(s0, u.chat)
             hit == FirstLockHit(s1.LOCKS[str(u.chat)], u)
         IN  IF hit = "" THEN FloodAccounting(u, s1, env)
             ELSE \E k \in env.api :
                    LET s2 == DeleteAt(s1, hit, u.chat, u.mid, k)
                    IN  IF k = "ok" THEN Commit("enforcement_handler", u, s2)
                        ELSE FloodAccounting(u, Caught(s2), env)

----------------------------------------------------------------------------
(* Start and restart *)

NoRun ==
    [handler |-> "main", u |-> NoUpdate, calls |-> <<>>, raised |-> "", saves |-> <<>>]

EmptyBuckets == [p \in GroupChats \X Users |-> <<>>]

\* Module load: the four tables are read from disk, the buckets are empty
Loaded(dsk) ==
    /\ WARNS = _load(dsk, WARN_FILE, EmptyDict)
    /\ SETTINGS = _load(dsk, SETTINGS_FILE, EmptyDict)
    /\ NOTES = _load(dsk, NOTES_FILE, EmptyDict)
    /\ LOCKS = _load(dsk, LOCKS_FILE, EmptyDict)
    /\ FLOOD_BUCKETS = EmptyBuckets

\* The process starts on the files dsk
Boot(dsk) ==
    /\ disk = dsk
    /\ Loaded(dsk)
    /\ tg = [c \in GroupChats |->
                [x \in Users |-> IF x \in GroupAdmins THEN "administrator" ELSE "member"]]
    /\ menu = [c \in PrivateChats |-> [text |-> "", kb |-> <<>>]]
    /\ now = 0
    /\ steps = 0
    /\ out = NoRun

NoFiles == [p \in Paths |-> Absent]

\* The first start, with no table file yet
Init == Boot(NoFiles)

\* The dispatcher is between two updates
Idle == out = NoRun

\* The dispatcher is done with the update (a handler's exception has gone to
\* error_handler, which logs it) and waits for the next one
Return ==
    /\ ~Idle
    /\ out' = NoRun
    /\ UNCHANGED <<WARNS, SETTINGS, NOTES, LOCKS, FLOOD_BUCKETS, disk, tg, menu, now, steps>>

\* The process stops (at the end of a handler, or where a save failed) and
\* is started again
Restart ==
    /\ Idle
    /\ ~Loaded(disk)
    /\ WARNS' = _load(disk, WARN_FILE, EmptyDict)
    /\ SETTINGS' = _load(disk, SETTINGS_FILE, EmptyDict)
    /\ NOTES' = _load(disk, NOTES_FILE, EmptyDict)
    /\ LOCKS' = _load(disk, LOCKS_FILE, EmptyDict)
    /\ FLOOD_BUCKETS' = EmptyBuckets
    /\ out' = NoRun
    /\ UNCHANGED <<disk, tg, menu, now, steps>>

----------------------------------------------------------------------------
(* The warn commands, by an administrator of the group *)

\* (of save_all's failures, the one after the warns table has been written)
WarnEnv == Env(ApiRes, {"ok", "BadRequest"}, {"ok", "Error"}, {0, 3})

\* a reply to a message of user 3, the id of user 4 as argument, or neither
WarnTargets == {<<<<Replied(3, 4)>>, <<>>>>, <<<<>>, <<"4">>>>, <<<<>>, <<>>>>}

MaxWarnArgs == {<<>>, <<"0">>, <<"5">>, <<"999">>}

WarnCommands(cmd) ==
    {Command(cmd, c, 2, t[1], t[2]) : c \in GroupChats, t \in WarnTargets}

Warn ==
    /\ Idle
    /\ \E u \in WarnCommands("warn") :
        /\ \A x \in Users : WarnCount(WARNS, str(u.chat), str(x)) < MaxWarnCount
        /\ cmd_warn(Cur, u, WarnEnv)

Warnings == Idle /\ \E u \in WarnCommands("warnings") : cmd_warnings(Cur, u, WarnEnv)

ClearWarns == Idle /\ \E u \in WarnCommands("clearwarns") : cmd_clearwarns(Cur, u, WarnEnv)

SetMaxWarns ==
    /\ Idle
    /\ \E c \in GroupChats, a \in MaxWarnArgs :
        cmd_setmaxwarns(Cur, Command("setmaxwarns", c, 2, <<>>, a), WarnEnv)

Next ==
    \/ Warn
    \/ Warnings
    \/ ClearWarns
    \/ SetMaxWarns
    \/ Return
    \/ Restart

Spec == Init /\ [][Next]_vars

----------------------------------------------------------------------------
(* What a handler run shows *)

CallsOf(o, api) == SelectSeq(o.calls, LAMBDA c : c.api = api)

\* the replies with this text
Says(o, text) == SelectSeq(o.calls, LAMBDA c : c.api = "reply_text" /\ c.text = text)

\* the moderation calls of a run
ModerationApis ==
    {"kick_chat_member", "unban_chat_member", "restrict_chat_member",
     "delete_message", "pin_chat_message", "unpin_chat_message"}

ModerationCalls(o) == SelectSeq(o.calls, LAMBDA c : c.api \in ModerationApis)

\* the wrapper let the body run
GatePassed(o) ==
    /\ is_group(o.u)
    /\ \/ o.u.from = OWNER_ID
       \/ /\ CallsOf(o, "get_chat_member") # <<>>
          /\ CallsOf(o, "get_chat_member")[1].res = "ok"
          /\ tg[o.u.chat][o.u.from] \in {"administrator", "creator"}

\* the user a run of /warn, /warnings or /clearwarns is about, as a key
TargetKey(o) == str(ReplyOrArgTarget(o.u)[1])

WarnPairs == {<<str(c), str(x)>> : c \in Chats, x \in Users \cup {0}}

\* the warns table as a restart would read it from disk
WarnsOnDisk == _load(disk, WARN_FILE, EmptyDict)

----------------------------------------------------------------------------
(* Claims about the warn commands *)

\* a /warn run that got as far as its "Warned. cnt/maxw" reply
WarnReported(o) ==
    /\ o.handler = "cmd_warn"
    /\ Says(o, "Warned.") # <<>>
    /\ Says(o, "Warned.")[1].res = "ok"

WarnCnt(o) == Says(o, "Warned.")[1].n[1]

WarnMax(o) == Says(o, "Warned.")[1].n[2]

WarnBanRejected(o) ==
    /\ WarnReported(o)
    /\ CallsOf(o, "kick_chat_member") # <<>>
    /\ CallsOf(o, "kick_chat_member")[1].res = "BadRequest"
    /\ o.raised = ""

ClearWarnsRan(o) ==
    /\ o.handler = "cmd_clearwarns"
    /\ GatePassed(o)
    /\ ReplyOrArgTarget(o.u) # <<>>

\* C9: every pair's count reads 0 at the start, /warnings reports the stored
\* count, and an authorized /clearwarns sets its pair's count to 0 and leaves
\* every other pair's count as it was.
C9_ClearWarns ==
    /\ \A p \in WarnPairs : WarnCount(WARNS, p[1], p[2]) = 0
    /\ [][/\ (Idle /\ out'.handler = "cmd_warnings" /\ Says(out', "Warnings:") # <<>>)
                => Says(out', "Warnings:")[1].n[1]
                        = WarnCount(WARNS, str(out'.u.chat), TargetKey(out'))
          /\ (Idle /\ ClearWarnsRan(out'))
                => \A p \in WarnPairs :
                      WarnCount(WARNS', p[1], p[2]) =
                        IF p = <<str(out'.u.chat), TargetKey(out')>>
                        THEN 0 ELSE WarnCount(WARNS, p[1], p[2])]_vars

\* a /clearwarns has reset a count that stood at 2 while another pair's count stands
C9_Witness ==
    /\ ClearWarnsRan(out)
    /\ \E p \in WarnPairs :
          /\ p # <<str(out.u.chat), TargetKey(out)>>
          /\ WarnCount(WARNS, p[1], p[2]) > 0
    /\ WarnCount(WARNS, str(out.u.chat), TargetKey(out)) = 0
    /\ WarnCount(WarnsOnDisk, str(out.u.chat), TargetKey(out)) = 0
    /\ out.raised = ""

----------------------------------------------------------------------------
(* The ban commands, by an administrator of the group *)

ModEnv == Env(ApiRes, {"ok"}, {"ok", "Error"}, {0})

ModBan == Idle /\ \E u \in WarnCommands("ban") : cmd_ban(Cur, u, ModEnv)

ModKick == Idle /\ \E u \in WarnCommands("kick") : cmd_kick(Cur, u, ModEnv)

ModUnban ==
    /\ Idle
    /\ \E c \in GroupChats, a \in {<<>>, <<"3">>, <<"4">>} :
        cmd_unban(Cur, Command("unban", c, 2, <<>>, a), ModEnv)

NextMod ==
    \/ ModBan
    \/ ModKick
    \/ ModUnban
    \/ Return

SpecMod == Init /\ [][NextMod]_vars

\* the run delivered this reply
Reported(o, text) == \E i \in 1..Len(o.calls) :
    o.calls[i].api = "reply_text" /\ o.calls[i].text = text /\ o.calls[i].res = "ok"

\* C10 as stated: a /ban or /kick that reports a failure made no retry and left
\* every membership as it was; a /kick that reports success has removed the
\* target without leaving it banned; a /ban that reports success has banned it.
C10_AsStated ==
    [][(Idle /\ out'.handler \in {"cmd_ban", "cmd_kick"})
        => LET target == _get_target_from_reply_or_arg(out'.u)[1]
           IN  /\ (Reported(out', "Failed to ban") \/ Reported(out', "Failed to kick"))
                    => /\ Len(CallsOf(out', "kick_chat_member")) <= 1
                       /\ Len(CallsOf(out', "unban_chat_member")) <= 1
                       /\ tg' = tg
               /\ Reported(out', "User kicked.") => tg'[out'.u.chat][target] = "left"
               /\ Reported(out', "User banned.") => tg'[out'.u.chat][target] = "kicked"]_vars

----------------------------------------------------------------------------
(* The admin gate: every gated command main() registers, from the owner, an
   administrator and a plain member in the group, and from a private chat *)

GateEnv == Env({"ok"}, {"ok"}, {"ok", "Error"}, {0})

\* who writes where: the owner, an administrator or a member in a group,
\* its user in a private chat
Senders == (GroupChats \X {1, 2, 3}) \cup {<<p, p>> : p \in PrivateChats}

R3 == <<Replied(3, 4)>>

\* the wrapped commands main() registers, each with a reply target and
\* arguments its body accepts
GatedCommands ==
    { <<"ban", R3, <<>>>>, <<"unban", <<>>, <<"3">>>>, <<"kick", R3, <<>>>>,
      <<"mute", R3, <<>>>>, <<"unmute", R3, <<>>>>, <<"purge", <<>>, <<"1">>>>,
      <<"warn", R3, <<>>>>, <<"clearwarns", R3, <<>>>>, <<"setmaxwarns", <<>>, <<"5">>>>,
      <<"setrules", <<>>, <<"be", "nice">>>>, <<"pin", R3, <<>>>>, <<"unpin", <<>>, <<>>>>,
      <<"save", <<>>, <<"Foo", "text">>>>, <<"delnote", <<>>, <<"foo">>>> }

\* the state a counted handler run starts from
GateStart == [Cur EXCEPT !.steps = @ + 1]

----------------------------------------------------------------------------
(* Anti-flood: one member and an anonymous sender write in the group while
   the clock advances; mute and announcement may fail *)

FloodEnv == Env({"ok", "Error"}, {"ok", "Error"}, {"ok"}, {0})

\* the clock's steps: to the edge of the window and just beyond it
TickDeltas == {FLOOD_WINDOW_SEC, FLOOD_WINDOW_SEC + 1}

\* a message that is no command; content is what the lock checks look at
Message(chat, from, content) == Update("message", "", chat, from, 5, <<>>, <<>>, content)

\* time.time() between two updates
Tick ==
    /\ Idle
    /\ \E d \in TickDeltas : now + d <= MaxTime /\ now' = now + d
    /\ UNCHANGED <<WARNS, SETTINGS, NOTES, LOCKS, FLOOD_BUCKETS, disk, tg, menu, steps, out>>

FloodPost ==
    Idle /\ \E c \in GroupChats, x \in {0, 3} :
                enforcement_handler(Cur, Message(c, x, {}), FloodEnv)

NextFlood == FloodPost \/ Tick \/ Return

SpecFlood == Init /\ [][NextFlood]_vars

\* the run got as far as the append to the sender's window
ReachedAccounting(o) ==
    /\ o.handler = "enforcement_handler"
    /\ is_group(o.u)
    /\ o.u.from # 0
    /\ \A i \in 1..Len(o.calls) :
            o.calls[i].api = "delete_message" => o.calls[i].res # "ok"

\* the entries of a window no more than the window's width before t
InWindow(dq, t) == Cardinality({i \in 1..Len(dq) : t - dq[i] <= FLOOD_WINDOW_SEC})

\* the chat's flood limit
FloodLimit(chat) ==
    IF str(chat) \in DOMAIN SETTINGS THEN SETTINGS[str(chat)].flood_limit
    ELSE DEFAULT_FLOOD_LIMIT

\* C4: no flood window ever holds more than 64 timestamps, and none holds a
\* timestamp more than 10 seconds older than the last one appended to it.
C4_FloodWindow ==
    \A key \in DOMAIN FLOOD_BUCKETS :
        LET dq == FLOOD_BUCKETS[key]
        IN  /\ Len(dq) <= DEQUE_MAXLEN
            /\ \A i \in 1..Len(dq) :
                    /\ dq[Len(dq)] - dq[i] <= FLOOD_WINDOW_SEC
                    /\ dq[i] <= now

\* a full window after an append that found stale entries to evict
C4_Witness ==
    /\ ReachedAccounting(out)
    /\ now > FLOOD_WINDOW_SEC
    /\ LET dq == FLOOD_BUCKETS[<<out.u.chat, out.u.from>>]
       IN  /\ Len(dq) = DEQUE_MAXLEN
           /\ dq[1] < now
           /\ dq[Len(dq)] = now

\* C5 as stated: the (L+1)-th message within the window makes exactly one
\* restrict call and empties the window, and a message on an empty window
\* makes none.
C5_AsStated ==
    [][(Idle /\ ReachedAccounting(out'))
        => LET key == <<out'.u.chat, out'.u.from>>
               k == InWindow(FLOOD_BUCKETS[key], now')
               mutes == CallsOf(out', "restrict_chat_member")
           IN  /\ k = FloodLimit(key[1])
                    => Len(mutes) = 1 /\ FLOOD_BUCKETS'[key] = <<>>
               /\ FLOOD_BUCKETS[key] = <<>> => mutes = <<>>]_vars

\* C5: a message that finds at least L messages of its sender within the
\* window makes exactly one restrict call, on the sender, and any other makes
\* none; the window is emptied when the restrict call and the announcement
\* both succeed and otherwise keeps its entries, the new one included.
C5_FloodMute ==
    [][(Idle /\ ReachedAccounting(out'))
        => LET key == <<out'.u.chat, out'.u.from>>
               k == InWindow(FLOOD_BUCKETS[key], now')
               mutes == CallsOf(out', "restrict_chat_member")
               said == CallsOf(out', "send_message")
               done == /\ mutes # <<>> /\ mutes[1].res = "ok"
                       /\ said # <<>> /\ said[1].res = "ok"
           IN  /\ k >= FloodLimit(key[1])
                    => Len(mutes) = 1 /\ mutes[1].user = key[2]
               /\ k < FloodLimit(key[1]) => mutes = <<>>
               /\ done => FLOOD_BUCKETS'[key] = <<>>
               /\ ~done => Len(FLOOD_BUCKETS'[key]) = Min(k + 1, DEQUE_MAXLEN)]_vars

\* the (L+1)-th message, its restrict call rejected, the window kept
C5_Witness ==
    /\ ReachedAccounting(out)
    /\ Len(CallsOf(out, "restrict_chat_member")) = 1
    /\ CallsOf(out, "restrict_chat_member")[1].res # "ok"
    /\ Len(FLOOD_BUCKETS[<<out.u.chat, out.u.from>>]) = DEFAULT_FLOOD_LIMIT + 1

----------------------------------------------------------------------------
(* Locks: the process starts on a locks file that sets the group's locks;
   a member posts messages of every content *)

LocksEnv == Env({"ok", "Error"}, {"ok"}, {"ok"}, {0})

LockRecords == [links : BOOLEAN, media : BOOLEAN, stickers : BOOLEAN]

\* the locks files the process may find
LocksFiles ==
    {[NoFiles EXCEPT ![LOCKS_FILE] = Full(Put(EmptyDict, str(c), l))] :
        c \in GroupChats, l \in LockRecords}

InitLocks == \E dsk \in LocksFiles : Boot(dsk)

Contents == SUBSET {"link", "media", "sticker"}

LockedPost ==
    Idle /\ \E c \in GroupChats, content \in Contents :
                enforcement_handler(Cur, Message(c, 3, content), LocksEnv)

NextLocks == LockedPost \/ Return

SpecLocks == InitLocks /\ [][NextLocks]_vars

\* the chat's locks
ActiveLocks(chat) ==
    IF str(chat) \in DOMAIN LOCKS THEN LOCKS[str(chat)] ELSE DefaultLocks

LockOrder == <<"links", "media", "stickers">>

LockTags == <<"link", "media", "sticker">>

\* the positions in the order of the active locks the message matches
LockHits(u) ==
    {i \in 1..3 : ActiveLocks(u.chat)[LockOrder[i]] /\ LockTags[i] \in u.content}

FirstOf(S) == CHOOSE i \in S : \A j \in S : i <= j

\* C6 as stated: a message matching an active lock gets exactly one delete
\* call, made by the first matching check, and leaves every flood window as
\* it was whether or not the delete succeeds.
C6_AsStated ==
    [][(Idle /\ out'.handler = "enforcement_handler" /\ is_group(out'.u)
             /\ LockHits(out'.u) # {})
        => LET dels == CallsOf(out', "delete_message")
           IN  /\ Len(dels) = 1
               /\ dels[1].text = LockOrder[FirstOf(LockHits(out'.u))]
               /\ FLOOD_BUCKETS' = FLOOD_BUCKETS]_vars

\* C6: a message matching an active lock gets exactly one delete call, made
\* by the first matching check in the order links, media, stickers; when the
\* delete succeeds the pipeline stops (no window changes, no restrict call);
\* when it fails flood accounting runs on the message.  A message matching no
\* active lock gets no delete call and goes to flood accounting.
C6_LockPipeline ==
    [][(Idle /\ out'.handler = "enforcement_handler" /\ is_group(out'.u))
        => LET dels == CallsOf(out', "delete_message")
               key == <<out'.u.chat, out'.u.from>>
               k == InWindow(FLOOD_BUCKETS[key], now')
               muted == \E i \in 1..Len(out'.calls) :
                            out'.calls[i].api = "send_message" /\ out'.calls[i].res = "ok"
               counted == IF muted THEN FLOOD_BUCKETS'[key] = <<>>
                          ELSE /\ Len(FLOOD_BUCKETS'[key]) = Min(k + 1, DEQUE_MAXLEN)
                               /\ FLOOD_BUCKETS'[key][Len(FLOOD_BUCKETS'[key])] = now'
           IN  IF LockHits(out'.u) = {}
               THEN dels = <<>> /\ counted
               ELSE /\ Len(dels) = 1
                    /\ dels[1].text = LockOrder[FirstOf(LockHits(out'.u))]
                    /\ IF dels[1].res = "ok"
                       THEN /\ FLOOD_BUCKETS' = FLOOD_BUCKETS
                            /\ CallsOf(out', "restrict_chat_member") = <<>>
                       ELSE counted]_vars

\* a link with media where only media and stickers are locked: the media
\* check's delete failed and the message was counted
C6_Witness ==
    /\ out.handler = "enforcement_handler"
    /\ {"link", "media"} \subseteq out.u.content
    /\ ~ActiveLocks(out.u.chat).links
    /\ Len(CallsOf(out, "delete_message")) = 1
    /\ CallsOf(out, "delete_message")[1].text = "media"
    /\ CallsOf(out, "delete_message")[1].res # "ok"
    /\ FLOOD_BUCKETS[<<out.u.chat, out.u.from>>] # <<>>

----------------------------------------------------------------------------
(* The dispatcher: the handler table built in main() *)

\* the private menu.  A keyboard is a sequence of rows of buttons.
InlineKeyboardButton(text, callback_data, url) ==
    [text |-> text, callback_data |-> callback_data, url |-> url]

main_menu_kb_FamilyFirst ==
    << <<InlineKeyboardButton("Our Family", "menu:family", "")>>,
       <<InlineKeyboardButton("Content", "menu:content", "")>> >>

main_menu_kb ==
    << <<InlineKeyboardButton("Content", "menu:content", "")>>,
       <<InlineKeyboardButton("Our Family", "menu:family", "")>> >>

content_menu_kb ==
    [i \in 1..Len(SUBJECTS) |->
        <<InlineKeyboardButton(SUBJECTS[i][1], "sub:" \o SUBJECTS[i][1], "")>>]
    \o << <<InlineKeyboardButton("Back", "menu:home", "")>> >>

\* links is SUBJECTS.get(subject, [])
subject_kb(subject) ==
    LET links == IF \E i \in 1..Len(SUBJECTS) : SUBJECTS[i][1] = subject
                 THEN SUBJECTS[CHOOSE i \in 1..Len(SUBJECTS) : SUBJECTS[i][1] = subject][2]
                 ELSE <<>>
    IN  [i \in 1..Len(links) |-> <<InlineKeyboardButton(links[i][1], "", links[i][2])>>]
        \o << <<InlineKeyboardButton("Back", "menu:content", "")>> >>

family_kb ==
    [i \in 1..Len(FAMILY_CHANNELS) |->
        <<InlineKeyboardButton(FAMILY_CHANNELS[i][1], "", FAMILY_CHANNELS[i][2])>>]
    \o << <<InlineKeyboardButton("Back", "menu:home", "")>> >>

\* A call of the private menu: q.answer(text), or reply_text or
\* edit_message_text with a keyboard.  Telegram rejects an edit that leaves
\* text and keyboard as they are; a new message, or an edit that succeeds, is
\* the menu the chat shows from then on.  A callback query takes one answer:
\* a further answer is rejected, or accepted and dropped ("dropped"), and is
\* not shown to the user either way.
MenuCall(s, u, api, text, kb, res) ==
    LET same == api = "edit_message_text" /\ u.chat \in DOMAIN s.menu
                    /\ s.menu[u.chat] = [text |-> text, kb |-> kb]
        answered == api = "answer_callback_query"
                    /\ \E i \in 1..Len(s.calls) :
                            s.calls[i].api = "answer_callback_query" /\ s.calls[i].res = "ok"
        got == IF (same \/ answered) /\ res = "ok" THEN "BadRequest"
               ELSE IF res = "dropped" /\ ~answered THEN "ok"
               ELSE res
    IN  [s EXCEPT !.calls = Append(@, Call(api, text, u.chat, 0, kb, got)),
                  !.menu = IF got = "ok" /\ api # "answer_callback_query" /\ u.chat \in DOMAIN @
                           THEN [@ EXCEPT ![u.chat] = [text |-> text, kb |-> kb]]
                           ELSE @,
                  !.raised = IF got \in {"ok", "dropped"} THEN "" ELSE got]

start(s0, u, env) ==
    \E r \in env.reply :
        Commit("start", u,
               IF ChatType(u.chat) = "private"
               THEN MenuCall(s0, u, "reply_text", "Welcome! Choose an option:", main_menu_kb, r)
               ELSE Reply(s0, u, "Hi! Add me as admin for moderation. Use /help for commands.",
                          <<>>, r))

\* tails are what can follow "sub:" in the callback data; subj is
\* data.split(":", 1)[1]
cb_handler(s0, u, env) ==
    LET data == u.cmd
        tails == {SUBJECTS[i][1] : i \in 1..Len(SUBJECTS)} \cup {"Nope", ""}
        subj == CHOOSE x \in tails : "sub:" \o x = data
    IN  \E k \in env.api :
            LET s1 == MenuCall(s0, u, "answer_callback_query", "", <<>>, k)
            IN  IF s1.raised # "" THEN Commit("cb_handler", u, s1)
                ELSE IF ChatType(u.chat) # "private"
                THEN \E k2 \in env.api \cup {"dropped"} :
                        Commit("cb_handler", u,
                               MenuCall(s1, u, "answer_callback_query",
                                        "Open this bot in private to use content menus.",
                                        <<>>, k2))
                ELSE \E e \in env.api :
                        IF data = "menu:home"
                        THEN Commit("cb_handler", u,
                                    MenuCall(s1, u, "edit_message_text",
                                             "Welcome! Choose an option:", main_menu_kb, e))
                        ELSE IF data = "menu:content"
                        THEN Commit("cb_handler", u,
                                    MenuCall(s1, u, "edit_message_text",
                                             "Choose subject:", content_menu_kb, e))
                        ELSE IF \E x \in tails : "sub:" \o x = data
                        THEN IF \A i \in 1..Len(SUBJECTS) : SUBJECTS[i][1] # subj
                             THEN Commit("cb_handler", u,
                                         MenuCall(s1, u, "edit_message_text",
                                                  "Subject not found.", content_menu_kb, e))
                             ELSE Commit("cb_handler", u,
                                         MenuCall(s1, u, "edit_message_text",
                                                  subj \o " - materials:",
                                                  subject_kb(subj), e))
                        ELSE IF data = "menu:family"
                        THEN Commit("cb_handler", u,
                                    MenuCall(s1, u, "edit_message_text",
                                             "Our Family channels:", family_kb, e))
                        ELSE Commit("cb_handler", u, s1)

whoami(s0, u, env) ==
    \E r \in env.reply : Commit("whoami", u, Reply(s0, u, "ID", <<u.from>>, r))

help_cmd(s0, u, env) ==
    \E r \in env.reply : Commit("help_cmd", u, Reply(s0, u, "help", <<>>, r))

CommandHandler(command, callback) ==
    [type |-> "CommandHandler", on |-> command, callback |-> callback]

CallbackQueryHandler(callback) ==
    [type |-> "CallbackQueryHandler", on |-> "", callback |-> callback]

MessageHandler(filters, callback) ==
    [type |-> "MessageHandler", on |-> filters, callback |-> callback]

\* dp.add_handler(...), in the order of main(); all in group 0
Handlers ==
    << CommandHandler("start", "start"),
       CallbackQueryHandler("cb_handler"),
       MessageHandler("status_update.new_chat_members", "welcome_handler"),
       MessageHandler("status_update.left_chat_member", "left_handler"),
       CommandHandler("ban", "cmd_ban"),
       CommandHandler("unban", "cmd_unban"),
       CommandHandler("kick", "cmd_kick"),
       CommandHandler("mute", "cmd_mute"),
       CommandHandler("unmute", "cmd_unmute"),
       CommandHandler("purge", "cmd_purge"),
       CommandHandler("warn", "cmd_warn"),
       CommandHandler("warnings", "cmd_warnings"),
       CommandHandler("clearwarns", "cmd_clearwarns"),
       CommandHandler("setmaxwarns", "cmd_setmaxwarns"),
       CommandHandler("setrules", "cmd_setrules"),
       CommandHandler("rules", "cmd_rules"),
       CommandHandler("pin", "cmd_pin"),
       CommandHandler("unpin", "cmd_unpin"),
       CommandHandler("save", "cmd_save"),
       CommandHandler("get", "cmd_get"),
       CommandHandler("notes", "cmd_notes"),
       CommandHandler("delnote", "cmd_delnote"),
       MessageHandler("all & ~status_update", "enforcement_handler"),
       CommandHandler("whoami", "whoami"),
       CommandHandler("help", "help_cmd") >>

StatusContents == {"new_chat_members", "left_chat_member"}

\* handler.check_update(update)
CheckUpdate(h, u) ==
    IF h.type = "CommandHandler" THEN u.kind = "message" /\ u.cmd = h.on
    ELSE IF h.type = "CallbackQueryHandler" THEN u.kind = "callback_query"
    ELSE IF h.on = "all & ~status_update"
         THEN u.kind = "message" /\ u.content \cap StatusContents = {}
    ELSE /\ u.kind = "message"
         /\ \E c \in StatusContents : h.on = "status_update." \o c /\ c \in u.content

\* Dispatcher.process_update: within a group the first handler whose check
\* passes gets the update ("" when none does)
Dispatch(u) ==
    LET hits == {i \in 1..Len(Handlers) : CheckUpdate(Handlers[i], u)}
    IN  IF hits = {} THEN "" ELSE Handlers[FirstOf(hits)].callback

\* the callback the dispatcher chose, run on the update
Handle(s, u, env) ==
    LET h == Dispatch(u)
    IN  CASE h = "start" -> start(s, u, env)
          [] h = "cb_handler" -> cb_handler(s, u, env)
          [] h = "cmd_ban" -> cmd_ban(s, u, env)
          [] h = "cmd_unban" -> cmd_unban(s, u, env)
          [] h = "cmd_kick" -> cmd_kick(s, u, env)
          [] h = "cmd_mute" -> cmd_mute(s, u, env)
          [] h = "cmd_unmute" -> cmd_unmute(s, u, env)
          [] h = "cmd_purge" -> cmd_purge(s, u, env)
          [] h = "cmd_warn" -> cmd_warn(s, u, env)
          [] h = "cmd_warnings" -> cmd_warnings(s, u, env)
          [] h = "cmd_clearwarns" -> cmd_clearwarns(s, u, env)
          [] h = "cmd_setmaxwarns" -> cmd_setmaxwarns(s, u, env)
          [] h = "cmd_setrules" -> cmd_setrules(s, u, env)
          [] h = "cmd_rules" -> cmd_rules(s, u, env)
          [] h = "cmd_pin" -> cmd_pin(s, u, env)
          [] h = "cmd_unpin" -> cmd_unpin(s, u, env)
          [] h = "cmd_save" -> cmd_save(s, u, env)
          [] h = "cmd_get" -> cmd_get(s, u, env)
          [] h = "cmd_notes" -> cmd_notes(s, u, env)
          [] h = "cmd_delnote" -> cmd_delnote(s, u, env)
          [] h = "enforcement_handler" -> enforcement_handler(s, u, env)
          [] h = "whoami" -> whoami(s, u, env)
          [] h = "help_cmd" -> help_cmd(s, u, env)

\* a wrapped command arrives
GateDeliver ==
    /\ Idle
    /\ steps < MaxGateSteps
    /\ \E c \in GatedCommands, cf \in Senders :
            Handle(GateStart, Command(c[1], cf[1], cf[2], c[2], c[3]), GateEnv)

NextGate == GateDeliver \/ Return

SpecGate == Init /\ [][NextGate]_vars

\* the wrapped handlers main() registers
GatedHandlers ==
    {"cmd_ban", "cmd_unban", "cmd_kick", "cmd_mute", "cmd_unmute", "cmd_purge",
     "cmd_warn", "cmd_clearwarns", "cmd_setmaxwarns", "cmd_setrules", "cmd_pin",
     "cmd_unpin", "cmd_save", "cmd_delnote"}

GateTexts == {"This command must be used in groups.", "Admins only."}

\* the calls of a run that are the body's, not the wrapper's
BodyCalls(o) ==
    SelectSeq(o.calls, LAMBDA c : c.api # "get_chat_member" /\ c.text \notin GateTexts)

\* C3: a gated command runs its body exactly when the chat is a group and the
\* invoker is the owner or the membership lookup succeeds with status
\* administrator or creator.  Otherwise no table, no file and no membership
\* changes and the only call besides the lookup is the refusal; outside a
\* group, and for the owner, no lookup is made.
C3_AdminGate ==
    [][(Idle /\ out'.handler \in GatedHandlers)
        => /\ GatePassed(out') => BodyCalls(out') # <<>>
           /\ ~GatePassed(out')
                => /\ BodyCalls(out') = <<>>
                   /\ ModerationCalls(out') = <<>>
                   /\ UNCHANGED <<WARNS, SETTINGS, NOTES, LOCKS, FLOOD_BUCKETS, disk, tg>>
                   /\ Reported(out', IF is_group(out'.u) THEN "Admins only."
                                     ELSE "This command must be used in groups.")
           /\ (~is_group(out'.u) \/ out'.u.from = OWNER_ID)
                => CallsOf(out', "get_chat_member") = <<>>
           /\ Len(CallsOf(out', "get_chat_member")) <= 1]_vars

\* an administrator's command was refused because the lookup failed, after a
\* run that changed a table
C3_Witness ==
    /\ out.handler \in GatedHandlers
    /\ ~GatePassed(out)
    /\ out.u.from \in GroupAdmins
    /\ CallsOf(out, "get_chat_member") # <<>>
    /\ Reported(out, "Admins only.")
    /\ NOTES # EmptyDict

DispatchEnv == Env({"ok"}, {"ok"}, {"ok"}, {0})

\* the command surface of the documentation
DocumentedCommands ==
    {"start", "help", "whoami", "setwelcome", "welcomeon", "welcomeoff", "ban",
     "unban", "kick", "mute", "unmute", "purge", "warn", "warnings", "clearwarns",
     "setmaxwarns", "setrules", "rules", "pin", "unpin", "save", "get", "notes",
     "delnote", "lock", "unlock"}

\* a documented command arrives, as a reply to a member's message, with no
\* argument, with a lock name or with another word
Deliver ==
    /\ Idle
    /\ steps < MaxDispatchSteps
    /\ \E c \in DocumentedCommands, cf \in Senders, a \in {<<>>, <<"links">>, <<"badname">>} :
            Handle(GateStart, Command(c, cf[1], cf[2], R3, a), DispatchEnv)

\* a message that is no command arrives
DeliverText ==
    /\ Idle
    /\ steps < MaxDispatchSteps
    /\ \E cf \in Senders : Handle(GateStart, Message(cf[1], cf[2], {}), DispatchEnv)

NextDispatch == Deliver \/ DeliverText \/ Return

SpecDispatch == Init /\ [][NextDispatch]_vars

\* the handler written for a command
OwnHandler(c) ==
    IF c = "start" THEN "start"
    ELSE IF c = "help" THEN "help_cmd"
    ELSE IF c = "whoami" THEN "whoami"
    ELSE "cmd_" \o c

\* C7 as stated: a documented command is run by its own handler.
C7_AsStated ==
    (out.u.kind = "message" /\ out.u.cmd \in DocumentedCommands)
        => out.handler = OwnHandler(out.u.cmd)

----------------------------------------------------------------------------
(* The table files: commands that change a table, saves that fail at any
   point, restarts *)

StoreEnv == Env({"ok"}, {"ok"}, {"ok"}, SaveFaults)

StoreWarn ==
    Idle /\ steps < MaxStoreSteps
    /\ cmd_warn(GateStart, Command("warn", -100, 2, R3, <<>>), StoreEnv)

StoreSetRules ==
    Idle /\ steps < MaxStoreSteps
    /\ cmd_setrules(GateStart, Command("setrules", -100, 2, <<>>, <<"be", "nice">>), StoreEnv)

StoreSaveNote ==
    Idle /\ steps < MaxStoreSteps
    /\ cmd_save(GateStart, Command("save", -100, 2, <<>>, <<"Foo", "text">>), StoreEnv)

\* a member's message: the chat's lock record is created in memory
StorePost ==
    Idle /\ steps < MaxStoreSteps
    /\ enforcement_handler(GateStart, Message(-100, 3, {}), StoreEnv)

NextStore == StoreWarn \/ StoreSetRules \/ StoreSaveNote \/ StorePost \/ Return \/ Restart

SpecStore == Init /\ [][NextStore]_vars

\* C8: no table file is ever partial.  Every save_all run that raises, at
\* some table i, leaves the temporary file of i truncated or complete, the
\* table files before i with the complete tables it was handed and the files
\* from i on as they were; a run that does not raise leaves all four files
\* with the complete tables.  Nothing else writes the disk.
C8_AtomicSave ==
    /\ [](\A i \in 1..4 : disk[TableFiles[i]].st # "partial")
    /\ [][(Idle /\ out'.handler # "main")
            => LET saves == out'.saves
               IN  /\ \A k \in 1..Len(saves) :
                        /\ saves[k].before = IF k = 1 THEN disk ELSE saves[k - 1].after
                        /\ \E i \in 1..5 :
                            /\ i = 5 <=> ~saves[k].raised
                            /\ i < 5 => saves[k].after[TmpOf(TableFiles[i])]
                                            \in {Partial, Full(saves[k].tables[i])}
                            /\ \A j \in 1..4 :
                                saves[k].after[TableFiles[j]] =
                                    IF j < i THEN Full(saves[k].tables[j])
                                    ELSE saves[k].before[TableFiles[j]]
                   /\ disk' = IF saves = <<>> THEN disk ELSE saves[Len(saves)].after
                   /\ \A k \in 1..Len(saves) - 1 : ~saves[k].raised]_vars

\* the save failed while writing the settings: the warns file is new, the
\* settings file is not, the temporary file is truncated
C8_Witness ==
    /\ out.raised # ""
    /\ out.saves # <<>>
    /\ WARNS # EmptyDict
    /\ disk[WARN_FILE] = Full(WARNS)
    /\ SETTINGS # EmptyDict
    /\ disk[SETTINGS_FILE] # Full(out.saves[Len(out.saves)].tables[2])
    /\ disk[TmpOf(SETTINGS_FILE)] = Partial

----------------------------------------------------------------------------
(* Failing calls: every documented command, with every outbound call and
   the save free to fail *)

\* a documented command arrives; calls, replies, lookups and saves may fail
DeliverFailing ==
    /\ Idle
    /\ steps < MaxFailSteps
    /\ \E c \in DocumentedCommands, cf \in Senders :
            Handle(GateStart, Command(c, cf[1], cf[2], R3, <<"1", "text">>),
                   Env(ApiRes, ApiRes, {"ok", "Error"}, {0, 1, 4}))

NextFail == DeliverFailing \/ Return

SpecFail == Init /\ [][NextFail]_vars

\* the calls whose BadRequest the command handlers catch
TriedApis ==
    {"kick_chat_member", "unban_chat_member", "restrict_chat_member",
     "pin_chat_message", "unpin_chat_message"}

----------------------------------------------------------------------------
(* /purge in count mode *)

\* C12 as stated: /purge N makes at most min(N, 300) delete calls, the first
\* on the command message's id and each on the id before the last one, and
\* reports the number of calls that succeeded.
C12_AsStated ==
    (out.handler = "cmd_purge" /\ out.u.args # <<>> /\ isdigit(out.u.args[1]))
        => LET dels == CallsOf(out, "delete_message")
               done == SelectSeq(dels, LAMBDA c : c.res = "ok")
               said == Says(out, "Purged messages.")
           IN  /\ Len(dels) <= Min(int(out.u.args[1]), PURGE_MAX)
               /\ \A i \in 1..Len(dels) : dels[i].n = <<out.u.mid - (i - 1)>>
               /\ \A i \in 1..Len(said) : said[i].n = <<Len(done)>>

----------------------------------------------------------------------------
(* /setmaxwarns *)

\* C13: every stored max_warns lies in 1..10, and a /setmaxwarns n that gets
\* past the admin gate with n written in digits leaves the chat's max_warns
\* at 1 when n < 1, at 10 when n > 10 and at n otherwise, and says so when
\* the save succeeds.
C13_MaxWarnsClamp ==
    /\ [](\A c \in DOMAIN SETTINGS : SETTINGS[c].max_warns \in 1..10)
    /\ [][(Idle /\ out'.handler = "cmd_setmaxwarns" /\ GatePassed(out')
                /\ out'.u.args # <<>> /\ isdigit(out'.u.args[1]))
            => LET n == int(out'.u.args[1])
                   stored == IF n < 1 THEN 1 ELSE IF n > 10 THEN 10 ELSE n
                   said == Says(out', "Max warns set to")
               IN  /\ SETTINGS'[str(out'.u.chat)].max_warns = stored
                   /\ \A i \in 1..Len(said) : said[i].n = <<stored>>
                   /\ out'.raised = "" => Len(said) = 1]_vars

\* /setmaxwarns 999 has stored 10, on disk as well
C13_Witness ==
    /\ out.handler = "cmd_setmaxwarns"
    /\ out.u.args = <<"999">>
    /\ Reported(out, "Max warns set to")
    /\ SETTINGS[str(out.u.chat)].max_warns = 10
    /\ _load(disk, SETTINGS_FILE, EmptyDict) = SETTINGS

----------------------------------------------------------------------------
(* Notes: an administrator and a member save, get, list and delete notes
   under names in several spellings *)

NoteNames == {"Foo", "foo", "FOO", "Bar", "bar"}

\* a notes command arrives
NotesDeliver ==
    /\ Idle
    /\ \E c \in {"save", "get", "notes", "delnote"}, name \in NoteNames,
          text \in {"a", "b"}, x \in {2, 3}, g \in GroupChats :
            Handle(Cur,
                   Command(c, g, x, <<>>,
                           IF c = "save" THEN <<name, text>>
                           ELSE IF c = "notes" THEN <<>> ELSE <<name>>),
                   Env({"ok"}, {"ok"}, {"ok"}, {0}))

NextNotes == NotesDeliver \/ Return

SpecNotes == Init /\ [][NextNotes]_vars

\* the spellings of a name that differ in case only
Variants(x) ==
    IF x \in {"Foo", "foo", "FOO"} THEN {"Foo", "foo", "FOO"}
    ELSE IF x \in {"Bar", "bar"} THEN {"Bar", "bar"}
    ELSE {x}

\* the chat's notes
ChatNotes(N, chat) == IF str(chat) \in DOMAIN N THEN N[str(chat)] ELSE EmptyDict

\* the entries of the chat's notes under a spelling of x
EntriesOf(N, chat, x) == DOMAIN ChatNotes(N, chat) \cap Variants(x)

\* C14: a chat's note table never holds two spellings of one name.  After a
\* /save X T that gets past the admin gate the table holds exactly one entry
\* under a spelling of X, with text T, and its other entries are as before.
\* /get Y replies with the text of the entry under a spelling of Y, or with
\* "Note not found." when there is none.
C14_NotesCaseFold ==
    /\ [](\A c \in GroupChats, x \in NoteNames : Cardinality(EntriesOf(NOTES, c, x)) <= 1)
    /\ [][/\ (Idle /\ out'.handler = "cmd_save" /\ GatePassed(out')
                   /\ Len(out'.u.args) = 2)
                => LET c == out'.u.chat
                       X == out'.u.args[1]
                   IN  /\ Cardinality(EntriesOf(NOTES', c, X)) = 1
                       /\ \A k \in EntriesOf(NOTES', c, X) :
                            ChatNotes(NOTES', c)[k] = out'.u.args[2]
                       /\ \A k \in NoteNames \ Variants(X) :
                            /\ k \in DOMAIN ChatNotes(NOTES', c)
                                    <=> k \in DOMAIN ChatNotes(NOTES, c)
                            /\ k \in DOMAIN ChatNotes(NOTES, c)
                                    => ChatNotes(NOTES', c)[k] = ChatNotes(NOTES, c)[k]
          /\ (Idle /\ out'.handler = "cmd_get" /\ out'.u.args # <<>>)
                => LET c == out'.u.chat
                       found == EntriesOf(NOTES, c, out'.u.args[1])
                   IN  /\ Len(CallsOf(out', "reply_text")) = 1
                       /\ IF found = {} THEN Reported(out', "Note not found.")
                          ELSE \E k \in found : Reported(out', ChatNotes(NOTES, c)[k])
                       /\ NOTES' = NOTES]_vars

\* /get FOO answers with the text last saved under a spelling of foo, while
\* a note bar is there as well
C14_Witness ==
    /\ out.handler = "cmd_get"
    /\ out.u.args = <<"FOO">>
    /\ out.u.from = 3
    /\ Reported(out, "b")
    /\ DOMAIN ChatNotes(NOTES, out.u.chat) = {"foo", "bar"}
    /\ ChatNotes(NOTES, out.u.chat)["bar"] = "a"

----------------------------------------------------------------------------
(* /lock and /unlock as the dispatcher delivers them *)

\* C15 as stated: /lock and /unlock with no argument or with a name that is
\* not links, media or stickers reply with the usage message and leave the
\* lock table as it was, in memory and on disk.
C15_AsStated ==
    [][(/\ Idle
        /\ out'.u.kind = "message"
        /\ out'.u.cmd \in {"lock", "unlock"}
        /\ out'.u.from = 2
        /\ out'.u.chat \in GroupChats
        /\ (out'.u.args = <<>> \/ out'.u.args[1] \notin LOCKABLES))
            => /\ Reported(out', "Usage: /" \o out'.u.cmd \o " <links|media|stickers>")
               /\ LOCKS' = LOCKS
               /\ disk'[LOCKS_FILE] = disk[LOCKS_FILE]]_vars

----------------------------------------------------------------------------
(* Target resolution: an administrator sends the commands that act on a
   user, with and without a reply, with and without arguments *)

\* a command that acts on a user arrives: as a reply to no message, to a
\* member's or to one without an author
TargetDeliver ==
    /\ Idle
    /\ steps < MaxTargetSteps
    /\ \E c \in {"ban", "kick", "mute", "unmute", "warn"}, g \in GroupChats,
          r \in {<<>>, R3, <<Replied(0, 4)>>},
          a \in {<<>>, <<"4">>, <<"0">>, <<"-100">>, <<"x">>, <<"4", "5">>} :
            Handle(GateStart, Command(c, g, 2, r, a), Env({"ok"}, {"ok"}, {"ok"}, {0}))

NextTarget == TargetDeliver \/ Return

SpecTarget == Init /\ [][NextTarget]_vars

\* the usage replies of the commands that act on a user
TargetUsage ==
    {"Reply to a user or pass user_id: /ban <id>", "Reply to a user to /kick.",
     "Reply to a user to /mute or /mute <minutes> while replying.",
     "Reply to a user to /unmute.", "Reply to a user to /warn."}

\* the token is the decimal form of an integer
IsInteger(tok) == \E n \in Numbers : str(n) = tok

\* the users whose warn count the step changed
WarnChanged(W, W2, chat) ==
    {x \in Users : WarnCount(W2, str(chat), str(x)) # WarnCount(W, str(chat), str(x))}

\* the users the run's moderation calls name
CalledOn(o) == {ModerationCalls(o)[i].user : i \in 1..Len(ModerationCalls(o))}

\* the run replied with usage and did nothing else
UsageOnly(o) ==
    /\ Len(BodyCalls(o)) = 1
    /\ BodyCalls(o)[1].api = "reply_text"
    /\ BodyCalls(o)[1].text \in TargetUsage

\* C16 as stated: the target is the author of the message replied to; else
\* an argument that parses as an integer; else there is none, and the
\* command replies with usage and changes nothing.
C16_AsStated ==
    [][(Idle /\ out'.handler \in {"cmd_ban", "cmd_kick", "cmd_mute", "cmd_unmute", "cmd_warn"}
             /\ GatePassed(out'))
        => LET u == out'.u
               target == IF u.reply # <<>> THEN <<u.reply[1].from>>
                         ELSE IF u.args # <<>> /\ IsInteger(u.args[1])
                              THEN <<int(u.args[1])>>
                         ELSE <<>>
           IN  IF target = <<>>
               THEN UsageOnly(out') /\ UNCHANGED <<WARNS, SETTINGS, NOTES, LOCKS, disk, tg>>
               ELSE CalledOn(out') \cup WarnChanged(WARNS, WARNS', u.chat) = {target[1]}]_vars

\* C16: /ban, /kick, /mute, /unmute and /warn act on the author of the message
\* replied to when that message has an author, whatever the arguments; else
\* on the first argument when it is made of digits only and is not 0; else the
\* command replies with usage, makes no other call and changes no table, no
\* file and no membership.
C16_TargetResolution ==
    [][(Idle /\ out'.handler \in {"cmd_ban", "cmd_kick", "cmd_mute", "cmd_unmute", "cmd_warn"}
             /\ GatePassed(out'))
        => LET u == out'.u
               target == IF u.reply # <<>> /\ u.reply[1].from # 0 THEN <<u.reply[1].from>>
                         ELSE IF u.args # <<>> /\ isdigit(u.args[1]) /\ u.args[1] # "0"
                              THEN <<int(u.args[1])>>
                         ELSE <<>>
           IN  IF target = <<>>
               THEN UsageOnly(out') /\ UNCHANGED <<WARNS, SETTINGS, NOTES, LOCKS, disk, tg>>
               ELSE /\ CalledOn(out') \cup WarnChanged(WARNS, WARNS', u.chat) = {target[1]}
                    /\ ~UsageOnly(out')]_vars

\* /ban 4 sent as a reply to user 3's message has banned user 3
C16_Witness ==
    /\ out.handler = "cmd_ban"
    /\ out.u.reply = R3
    /\ out.u.args = <<"4">>
    /\ CallsOf(out, "kick_chat_member") # <<>>
    /\ CallsOf(out, "kick_chat_member")[1].user = 3
    /\ CallsOf(out, "kick_chat_member")[1].res = "ok"
    /\ Reported(out, "User banned.")

\* C17 as stated: /mute restricts its target for 10 minutes when no minutes
\* argument is given and for max(1, m) minutes when the minutes argument is m,
\* the minutes being the first argument of a /mute sent as a reply and the
\* argument after the user id otherwise.
C17_AsStated ==
    (out.handler = "cmd_mute" /\ CallsOf(out, "restrict_chat_member") # <<>>)
        => LET u == out.u
               byReply == u.reply # <<>> /\ u.reply[1].from # 0
               given == IF byReply THEN u.args ELSE Tail(u.args)
               minutes == IF given # <<>> /\ isdigit(given[1])
                          THEN (IF int(given[1]) < 1 THEN 1 ELSE int(given[1]))
                          ELSE 10
               call == CallsOf(out, "restrict_chat_member")[1]
           IN  /\ call.n[1] = minutes
               /\ \A i \in 1..Len(Says(out, "Muted for")) :
                    Says(out, "Muted for")[i].n = <<minutes>>

----------------------------------------------------------------------------
(* Durability of /lock *)

\* C18 as stated, for /lock: once an administrator's /lock links has completed
\* in a group, the lock table reloaded from disk holds the chat's record with
\* links true and media and stickers false.
C18_AsStated ==
    (/\ out.u.kind = "message"
     /\ out.u.cmd = "lock"
     /\ out.u.args = <<"links">>
     /\ out.u.from = 2
     /\ out.u.chat \in GroupChats
     /\ out.raised = "")
        => LET reloaded == _load(disk, LOCKS_FILE, EmptyDict)
               key == str(out.u.chat)
           IN  /\ key \in DOMAIN reloaded
               /\ reloaded[key].links = TRUE
               /\ reloaded[key].media = FALSE
               /\ reloaded[key].stickers = FALSE

----------------------------------------------------------------------------
(* Startup over table files that are missing, malformed or well-formed *)

\* what a table file holds when it is not missing
StoredTable(path) ==
    CASE path = WARN_FILE -> Put(EmptyDict, "-100", Put(EmptyDict, "3", 1))
      [] path = SETTINGS_FILE ->
            Put(EmptyDict, "-100", [DefaultSettings EXCEPT !.rules_text = "be nice"])
      [] path = NOTES_FILE -> Put(EmptyDict, "-100", Put(EmptyDict, "foo", "a"))
      [] path = LOCKS_FILE -> Put(EmptyDict, "-100", [DefaultLocks EXCEPT !.links = TRUE])

\* a file with the table's text in it that does not parse
Malformed(table) == [st |-> "partial", json |-> JsonDump(table)]

\* every table file is missing, malformed or well-formed
InitLoad ==
    \E f \in [{TableFiles[i] : i \in 1..4} -> {"absent", "partial", "full"}] :
        Boot([p \in Paths |->
                IF p \notin DOMAIN f \/ f[p] = "absent" THEN Absent
                ELSE IF f[p] = "partial" THEN Malformed(StoredTable(p))
                ELSE Full(StoredTable(p))])

\* an update arrives after startup
LoadDeliver ==
    /\ Idle
    /\ steps < MaxLoadSteps
    /\ \E u \in {Command("warn", -100, 2, R3, <<>>), Command("warnings", -100, 3, R3, <<>>),
                 Command("rules", -100, 3, <<>>, <<>>), Command("get", -100, 3, <<>>, <<"foo">>),
                 Message(-100, 3, {"link"})} :
            Handle(GateStart, u, Env({"ok"}, {"ok"}, {"ok"}, {0}))

NextLoad == LoadDeliver \/ Return \/ Restart

SpecLoad == InitLoad /\ [][NextLoad]_vars

\* the disk with its malformed table files removed
WithoutMalformed(dsk) == [p \in Paths |-> IF dsk[p].st = "partial" THEN Absent ELSE dsk[p]]

\* C19: the tables a start reads are those it would read with the malformed
\* files missing: a table whose file is missing or malformed starts empty, the
\* start itself fails in neither case, and a chat without stored settings gets
\* the default settings on first use.
C19_MalformedAsMissing ==
    /\ [](/\ out.handler = "main" => out.raised = ""
          /\ (Idle /\ steps = 0)
                => /\ Loaded(WithoutMalformed(disk))
                   /\ \A i \in 1..4 :
                        disk[TableFiles[i]].st # "full"
                            => _load(disk, TableFiles[i], EmptyDict) = EmptyDict)
    /\ [][/\ (Idle /\ out' = NoRun)
                => /\ WARNS' = _load(WithoutMalformed(disk), WARN_FILE, EmptyDict)
                   /\ SETTINGS' = _load(WithoutMalformed(disk), SETTINGS_FILE, EmptyDict)
                   /\ NOTES' = _load(WithoutMalformed(disk), NOTES_FILE, EmptyDict)
                   /\ LOCKS' = _load(WithoutMalformed(disk), LOCKS_FILE, EmptyDict)
                   /\ \A i \in 1..4 :
                        disk[TableFiles[i]].st # "full"
                            => <<WARNS', SETTINGS', NOTES', LOCKS'>>[i] = EmptyDict
          /\ (Idle /\ out'.handler = "cmd_rules" /\ str(out'.u.chat) \notin DOMAIN SETTINGS)
                => /\ Reported(out', DefaultSettings.rules_text)
                   /\ SETTINGS'[str(out'.u.chat)] = DefaultSettings]_vars

\* /rules answers with the default rules in a chat whose settings file is
\* malformed, while the warn table was read from a well-formed file
C19_Witness ==
    /\ out.handler = "cmd_rules"
    /\ steps = 1
    /\ disk[SETTINGS_FILE] = Malformed(StoredTable(SETTINGS_FILE))
    /\ disk[WARN_FILE].st = "full"
    /\ WARNS = StoredTable(WARN_FILE)
    /\ Reported(out, "default rules")
    /\ SETTINGS[str(out.u.chat)] = DefaultSettings

----------------------------------------------------------------------------
(* Menu navigation: /start and button presses, in the private chat and in
   the group; any call may fail *)

\* /start or a button press arrives
MenuDeliver ==
    /\ Idle
    /\ steps < MaxMenuSteps
    /\ \E cf \in Senders :
        \E u \in {Command("start", cf[1], cf[2], <<>>, <<>>)}
                    \cup {Update("callback_query", d, cf[1], cf[2], 5, <<>>, <<>>, {}) :
                            d \in {"menu:home", "menu:content", "menu:family", "sub:Math",
                                   "sub:English", "sub:Nope", "noop"}} :
            Handle(GateStart, u, Env(ApiRes, ApiRes, {"ok"}, {0}))

NextMenu == MenuDeliver \/ Return

SpecMenu == Init /\ [][NextMenu]_vars

\* the callback data on the buttons of a keyboard
ButtonData(kb) == {kb[i][j].callback_data : i \in 1..Len(kb), j \in {1}}

\* C20: /start in a private chat, and every press of a button leading home
\* that succeeds, show the text "Welcome! Choose an option:" over the two rows
\* Content and Our Family; the screens on the way (home, content, Math, content,
\* home) each carry the button for the next step; and no /start and no button
\* press changes a table or writes a file.
C20_MenuRoundTrip ==
    [][(Idle /\ out'.handler \in {"start", "cb_handler"})
        => LET c == out'.u.chat
               d == out'.u.cmd
               pressed == out'.handler = "cb_handler" /\ out'.raised = ""
           IN  /\ UNCHANGED <<WARNS, SETTINGS, NOTES, LOCKS, disk>>
               /\ out'.saves = <<>>
               /\ c \notin PrivateChats => menu' = menu
               /\ (c \in PrivateChats /\ out'.raised = ""
                        /\ (out'.handler = "start" \/ d = "menu:home"))
                    => menu'[c] =
                        [text |-> "Welcome! Choose an option:",
                         kb |-> << <<[text |-> "Content", callback_data |-> "menu:content",
                                      url |-> ""]>>,
                                   <<[text |-> "Our Family", callback_data |-> "menu:family",
                                      url |-> ""]>> >>]
               /\ (c \in PrivateChats /\ pressed /\ d = "menu:content")
                    => /\ menu'[c].text = "Choose subject:"
                       /\ {"sub:Math", "menu:home"} \subseteq ButtonData(menu'[c].kb)
               /\ (c \in PrivateChats /\ pressed /\ d = "sub:Math")
                    => /\ menu'[c].text = "Math - materials:"
                       /\ "menu:content" \in ButtonData(menu'[c].kb)]_vars

\* a press of Back on the content screen has brought the home menu back, after
\* /start and at least four presses
C20_Witness ==
    /\ out.handler = "cb_handler"
    /\ out.u.cmd = "menu:home"
    /\ out.u.chat \in PrivateChats
    /\ steps >= 5
    /\ out.calls[Len(out.calls)].api = "edit_message_text"
    /\ out.calls[Len(out.calls)].res = "ok"
    /\ menu[out.u.chat] = [text |-> "Welcome! Choose an option:", kb |-> main_menu_kb]
    /\ WARNS = EmptyDict /\ SETTINGS = EmptyDict /\ NOTES = EmptyDict /\ LOCKS = EmptyDict
    /\ disk = NoFiles

----------------------------------------------------------------------------
(* The enforcement pipeline and the registered commands *)

\* C21 as stated: every message in a group that is no status update, a
\* registered command included, goes through the enforcement pipeline: the
\* enforcement handler runs on it and counts it in its sender's flood window.
C21_AsStated ==
    [][(/\ Idle
        /\ out'.u.kind = "message"
        /\ is_group(out'.u)
        /\ out'.u.content \cap StatusContents = {}
        /\ out'.u.from # 0)
            => /\ out'.handler = "enforcement_handler"
               /\ FLOOD_BUCKETS'[<<out'.u.chat, out'.u.from>>]
                    # FLOOD_BUCKETS[<<out'.u.chat, out'.u.from>>]]_vars

----------------------------------------------------------------------------
(* Button presses with every call going through *)

\* /start or a button press arrives
PressDeliver ==
    /\ Idle
    /\ steps < MaxMenuSteps
    /\ \E cf \in Senders :
        \E u \in {Command("start", cf[1], cf[2], <<>>, <<>>)}
                    \cup {Update("callback_query", d, cf[1], cf[2], 5, <<>>, <<>>, {}) :
                            d \in {"menu:home", "menu:content", "menu:family", "sub:Math",
                                   "sub:Nope"}} :
            Handle(GateStart, u, Env({"ok"}, {"ok"}, {"ok"}, {0}))

NextPress == PressDeliver \/ Return

SpecPress == Init /\ [][NextPress]_vars

\* C22 as stated: a press in the private chat shows the screen its data names,
\* an unknown subject shows the content list under an error text, and a press
\* in a group delivers the open-in-private alert and edits no message.
C22_AsStated ==
    (out.handler = "cb_handler")
        => LET c == out.u.chat
               d == out.u.cmd
           IN  /\ (c \in PrivateChats /\ d = "menu:home")
                    => menu[c] = [text |-> "Welcome! Choose an option:", kb |-> main_menu_kb]
               /\ (c \in PrivateChats /\ d = "menu:content")
                    => menu[c] = [text |-> "Choose subject:", kb |-> content_menu_kb]
               /\ (c \in PrivateChats /\ d = "menu:family")
                    => menu[c] = [text |-> "Our Family channels:", kb |-> family_kb]
               /\ (c \in PrivateChats /\ d = "sub:Math")
                    => menu[c] = [text |-> "Math - materials:", kb |-> subject_kb("Math")]
               /\ (c \in PrivateChats /\ d = "sub:Nope")
                    => menu[c] = [text |-> "Subject not found.", kb |-> content_menu_kb]
               /\ c \in GroupChats
                    => /\ \E i \in 1..Len(out.calls) :
                            /\ out.calls[i].api = "answer_callback_query"
                            /\ out.calls[i].text = "Open this bot in private to use content menus."
                            /\ out.calls[i].res = "ok"
                       /\ CallsOf(out, "edit_message_text") = <<>>

----------------------------------------------------------------------------
(* The range of the warn counts *)

\* the chat's max_warns
MaxWarnsOf(S, chat) == IF chat \in DOMAIN S THEN S[chat].max_warns ELSE MAX_WARNS_DEFAULT

\* the pair's count is below its chat's max_warns
BelowMax(W, S, p) == WarnCount(W, p[1], p[2]) < MaxWarnsOf(S, p[1])

\* C23 as stated: every stored count is at least 0 and below its chat's
\* max_warns.
C23_AsStated ==
    \A p \in WarnPairs : WarnCount(WARNS, p[1], p[2]) >= 0 /\ BelowMax(WARNS, SETTINGS, p)

\* C23: no stored count is negative.  A count below its chat's max_warns stays
\* below it through every step but these: a /warn on that user that raised an
\* error before its ban attempt or whose ban attempt did not succeed, a
\* /setmaxwarns in that chat that lowers max_warns, and a restart.  A /warn
\* whose ban attempt succeeds leaves the count at 0.
C23_WarnCountRange ==
    /\ [](\A p \in WarnPairs : WarnCount(WARNS, p[1], p[2]) >= 0)
    /\ [][/\ \A p \in WarnPairs :
                (BelowMax(WARNS, SETTINGS, p) /\ ~BelowMax(WARNS', SETTINGS', p))
                    => \/ /\ out'.handler = "cmd_warn"
                          /\ p = <<str(out'.u.chat), TargetKey(out')>>
                          /\ LET bans == CallsOf(out', "kick_chat_member")
                             IN  \/ bans = <<>> /\ out'.raised # ""
                                 \/ bans # <<>> /\ bans[1].res # "ok"
                       \/ /\ out'.handler = "cmd_setmaxwarns"
                          /\ p[1] = str(out'.u.chat)
                          /\ MaxWarnsOf(SETTINGS', p[1]) < MaxWarnsOf(SETTINGS, p[1])
                       \/ Idle /\ out' = NoRun
          /\ (/\ Idle
              /\ out'.handler = "cmd_warn"
              /\ CallsOf(out', "kick_chat_member") # <<>>
              /\ CallsOf(out', "kick_chat_member")[1].res = "ok")
                => /\ WarnCount(WARNS', str(out'.u.chat), TargetKey(out')) = 0
                   /\ BelowMax(WARNS', SETTINGS', <<str(out'.u.chat), TargetKey(out')>>)]_vars

\* a /warn whose ban attempt failed has left the count at the chat's max_warns
C23_Witness ==
    /\ out.handler = "cmd_warn"
    /\ CallsOf(out, "kick_chat_member") # <<>>
    /\ CallsOf(out, "kick_chat_member")[1].res = "Error"
    /\ WarnCount(WARNS, str(out.u.chat), TargetKey(out)) = MaxWarnsOf(SETTINGS, str(out.u.chat))

----------------------------------------------------------------------------
(* Flood accounting when the mute or its announcement fails *)

\* C24: a message that reaches flood accounting leaves its sender's window
\* empty exactly when it made a restrict call and an announcement that both
\* succeeded.  Otherwise the handler returns normally, the window keeps the
\* timestamps of the last 10 seconds (but for the oldest when it was full) and
\* ends with the new one, and the message made a restrict attempt exactly when
\* the window it leaves behind exceeds the limit - so a window kept after a
\* failure brings a new attempt with the next message.
C24_FloodRetry ==
    [][(Idle /\ ReachedAccounting(out'))
        => LET key == <<out'.u.chat, out'.u.from>>
               dq == FLOOD_BUCKETS'[key]
               mutes == CallsOf(out', "restrict_chat_member")
               said == CallsOf(out', "send_message")
               both == /\ Len(mutes) = 1 /\ mutes[1].res = "ok"
                       /\ Len(said) = 1 /\ said[1].res = "ok"
           IN  /\ dq = <<>> <=> both
               /\ out'.raised = ""
               /\ Len(mutes) <= 1
               /\ ~both
                    => /\ dq[Len(dq)] = now'
                       /\ \A i \in 1..Len(FLOOD_BUCKETS[key]) :
                            (/\ now' - FLOOD_BUCKETS[key][i] <= FLOOD_WINDOW_SEC
                             /\ (i > 1 \/ Len(FLOOD_BUCKETS[key]) < DEQUE_MAXLEN))
                                => \E j \in 1..Len(dq) : dq[j] = FLOOD_BUCKETS[key][i]
                       /\ Len(dq) = Min(InWindow(FLOOD_BUCKETS[key], now') + 1, DEQUE_MAXLEN)
                       /\ Len(mutes) = 1 <=> Len(dq) > FloodLimit(key[1])
                       /\ (mutes # <<>> /\ mutes[1].res # "ok") => said = <<>>]_vars

\* the restrict call went through and the announcement failed, on a window
\* that an earlier failure had left above the limit
C24_Witness ==
    /\ ReachedAccounting(out)
    /\ Len(CallsOf(out, "restrict_chat_member")) = 1
    /\ CallsOf(out, "restrict_chat_member")[1].res = "ok"
    /\ Len(CallsOf(out, "send_message")) = 1
    /\ CallsOf(out, "send_message")[1].res = "Error"
    /\ out.raised = ""
    /\ Len(FLOOD_BUCKETS[<<out.u.chat, out.u.from>>]) >= DEFAULT_FLOOD_LIMIT + 2

====
